---- MODULE Spec2Model ----
(***************************************************************************)
(* Supervisor core of the coordinator: the slot manager (coordinator/      *)
(* manager.py, SlotManager), the rotation queue (coordinator/types.py,     *)
(* ProfileQueue), the child registry (manager.py, ChildRegistry), the     *)
(* parts of main.py that drive them and the retry loop of the request      *)
(* handlers (api.py).                                                      *)
(*                                                                         *)
(* Python objects are modelled by identity: a ChildProcess is an index     *)
(* into the sequence `child` of every child handle created so far, an      *)
(* AuthProfile is a number (its name), a slot is its index in the pool.    *)
(* None is 0.                                                              *)
(***************************************************************************)
EXTENDS Integers, Sequences, FiniteSets, TLC

\* ------------------------------------------------------------------ bounds
NProfiles == 4          \* most profiles discovered, slot manager on its own
MaxLaunches == 5        \* child handles created, slot manager on its own
RegProfiles == 3        \* most profiles discovered, coordinator
RegLaunches == 3        \* child handles created, coordinator
NChildren == 2          \* children handed to a registry without slot manager
MaxCalls == 5           \* length of a run of successive next_child calls
MaxTimeout == 2         \* largest timeout given to wait_for_ready, in seconds
MaxDur == 1             \* longest time one health request takes, in seconds
MaxCount == 3           \* largest count given to assign_ports
MaxStep == 2            \* largest step given to assign_ports
\* the pool and the launches of the watchdog's fair runs
WdProfiles == 1
WdLaunches == 2
MaxTasks == 2           \* monitor tasks created in a run

\* ------------------------------------------------------- program constants
PROFILE_POOL_SIZE == 2
DEFAULT_CHILD_BASE_API_PORT == 3100
DEFAULT_CHILD_BASE_STREAM_PORT == 3200
DEFAULT_CHILD_BASE_CAMOUFOX_PORT == 9222
DEFAULT_PORT_INCREMENT == 1
None == 0

VARIABLES
    profiles,       \* main(): the profiles discovered, in order
    slotProfile,    \* ProfileSlot.profile, per slot
    slotProcess,    \* ProfileSlot.process (a ChildProcess), per slot
    slotPorts,      \* ProfileSlot.ports, per slot: <<api, stream, camoufox>>
    queue,          \* SlotManager._queue._profiles
    child,          \* every ChildProcess created: profile, ports, alive, ready
    lock,           \* SlotManager._lock: "free" or the call holding it
    mainpc,         \* position of main()
    exitCode,       \* <<>> while main() runs, <<code>> once it has returned
    hasSM,          \* ChildRegistry._slot_manager is not None
    children,       \* ChildRegistry._children: name -> ChildProcess
    ready,          \* ChildRegistry._ready
    unhealthy,      \* ChildRegistry._unhealthy
    pollNames,      \* _poll_once: names of list(self._unhealthy) still to visit
    pollCur,        \* _poll_once: child whose health check is awaited
    last,           \* the call made by the last step and what it returned
    rrBase,         \* ready deque when the current run of next_child calls began
    rrSeq,          \* children returned by the current run of next_child calls
    initIdx,        \* _initialize_children: children of the list already visited
    reqpc,          \* the request handler: "idle", "forward", "done"
    attempted,      \* the handler's set `attempted` of profile names
    reqChild,       \* the child the handler forwards to (relayed from, if 200)
    reqStatus,      \* status of the response, None while there is none
    reqForwards,    \* names the handler has forwarded to, in order
    probe,          \* wait_for_ready in progress: its child and locals
    mrChild,        \* mark_ready past its _is_alive check: the child, or None
    notified,       \* _monitor_child_processes: its set `notified` of (name, pid)
    wdChild,        \* the watchdog's exited child it is about to evict, or None
    smCall,         \* SlotManager.evict_child inside its `with self._lock`
    rot,            \* the queue when the current round of recycles began, and
                    \* the recycles since
    stopEvent,      \* ChildRegistry._stop_event is set
    monTasks,       \* every monitor task created: "wait", "poll" or "done"
    monTask,        \* ChildRegistry._monitor_task: a task, or None
    shpc            \* ChildRegistry.shutdown: "idle" or "awaiting"

reqVars == <<reqpc, attempted, reqChild, reqStatus, reqForwards>>

wdVars == <<notified, wdChild>>

monVars == <<stopEvent, monTasks, monTask, shpc>>

thrVars == <<wdVars, smCall, rot, monVars>>

callVars == <<probe, mrChild, thrVars>>

vars == <<profiles, slotProfile, slotProcess, slotPorts, queue, child, lock, mainpc,
          exitCode, hasSM, children, ready, unhealthy, pollNames, pollCur,
          last, rrBase, rrSeq, initIdx, reqVars, callVars>>

Min(a, b) == IF a < b THEN a ELSE b

Range(s) == {s[i] : i \in 1..Len(s)}

Names == 1..NProfiles

Slots == DOMAIN slotProfile

Children == 1..Len(child)

\* ------------------------------------------------ the state as one value
\* The methods below are functions from a state w to the state they leave.
World ==
    [slotProfile |-> slotProfile, slotProcess |-> slotProcess,
     slotPorts |-> slotPorts, queue |-> queue, child |-> child,
     children |-> children, ready |-> ready, unhealthy |-> unhealthy]

SetWorld(w) ==
    /\ slotProfile' = w.slotProfile
    /\ slotProcess' = w.slotProcess
    /\ slotPorts' = w.slotPorts
    /\ queue' = w.queue
    /\ child' = w.child
    /\ children' = w.children
    /\ ready' = w.ready
    /\ unhealthy' = w.unhealthy

\* What the last step did: the operation called, its argument, the value it
\* returned, the outcome of launch_fn it was given, and the argument and
\* result of the SlotManager.evict_child call it made (smArg = None: none);
\* by: where the call was made from.
Call(op, arg, ret, ok, smArg, smRet) ==
    [op |-> op, arg |-> arg, ret |-> ret, ok |-> ok,
     smArg |-> smArg, smRet |-> smRet, by |-> "caller"]

CallBy(who, call) == [call EXCEPT !.by = who]

NoCall == Call("none", None, None, FALSE, None, None)

\* --------------------------------------------------------- ProfileQueue
\* (variant: the evicted profile put at the front)
push_at_front(q, p) == <<p>> \o q

push(q, p) == Append(q, p)

\* (variants: the failed candidate dropped; the failed candidate put last)
push_front_dropped(q, p) == q

push_front_at_back(q, p) == Append(q, p)

push_front(q, p) == <<p>> \o q

\* (variant: the newest profile of the queue is taken)
pop_newest(q) ==
    IF Len(q) = 0 THEN [profile |-> None, queue |-> q]
    ELSE [profile |-> q[Len(q)], queue |-> SubSeq(q, 1, Len(q) - 1)]

\* pop returns the head (None when empty) and the remaining queue
pop(q) ==
    IF Len(q) = 0 THEN [profile |-> None, queue |-> q]
    ELSE [profile |-> Head(q), queue |-> Tail(q)]

\* ---------------------------------------------------------- SlotManager
is_alive(w, c) == w.child[c].alive

\* (variants: the slot's profile not recorded; the child given the ports of
\* the first slot)
launch_into_slot_no_profile(w, s, p) ==
    LET c == Len(w.child) + 1
    IN [w EXCEPT !.child = Append(@, [profile |-> p, ports |-> w.slotPorts[s],
                                      alive |-> TRUE, ready |-> FALSE]),
                 !.slotProcess[s] = c]

launch_into_slot_first_empty(w, s, p) ==
    LET c == Len(w.child) + 1
        e == CHOOSE x \in DOMAIN w.slotProcess :
                 /\ w.slotProcess[x] = None
                 /\ \A y \in DOMAIN w.slotProcess :
                       w.slotProcess[y] = None => x <= y
    IN [w EXCEPT !.child = Append(@, [profile |-> p, ports |-> w.slotPorts[e],
                                      alive |-> TRUE, ready |-> FALSE]),
                 !.slotProfile[e] = p,
                 !.slotProcess[e] = c]

launch_into_slot_first_ports(w, s, p) ==
    LET c == Len(w.child) + 1
    IN [w EXCEPT !.child = Append(@, [profile |-> p, ports |-> w.slotPorts[1],
                                      alive |-> TRUE, ready |-> FALSE]),
                 !.slotProfile[s] = p,
                 !.slotProcess[s] = c]

\* launch_fn(profile, slot.ports, ...) returned a handle: bind it to the
\* slot, ready = False
launch_into_slot(w, s, p) ==
    LET c == Len(w.child) + 1
    IN [w EXCEPT !.child = Append(@, [profile |-> p, ports |-> w.slotPorts[s],
                                      alive |-> TRUE, ready |-> FALSE]),
                 !.slotProfile[s] = p,
                 !.slotProcess[s] = c]

\* (variant: the process is left running)
terminate_slot_no_kill(w, s) ==
    LET c == w.slotProcess[s]
    IN IF c = None THEN w
       ELSE [w EXCEPT !.slotProcess[s] = None,
                      !.slotProfile[s] = None]

\* terminate -> wait(10 s) -> kill -> wait: the process has exited on return
terminate_slot(w, s) ==
    LET c == w.slotProcess[s]
    IN IF c = None THEN w
       ELSE [w EXCEPT !.child[c].alive = FALSE,
                      !.slotProcess[s] = None,
                      !.slotProfile[s] = None]

clear_slot(w, s) ==
    [w EXCEPT !.slotProfile[s] = None, !.slotProcess[s] = None]

\* (variant: a child found in no slot is taken for the first occupant)
SlotOf_or_first(w, c) ==
    LET S == {s \in DOMAIN w.slotProcess : w.slotProcess[s] = c}
        O == {s \in DOMAIN w.slotProcess : w.slotProcess[s] # None}
    IN IF c = None THEN None
       ELSE IF S # {} THEN CHOOSE s \in S : \A t \in S : s <= t
       ELSE IF O # {} THEN CHOOSE s \in O : \A t \in O : s <= t
       ELSE None

\* `next((s for s in self._slots if s.process is child), None)`
SlotOf(w, c) ==
    LET S == {s \in DOMAIN w.slotProcess : w.slotProcess[s] = c}
    IN IF c = None \/ S = {} THEN None
       ELSE CHOOSE s \in S : \A t \in S : s <= t

\* (variant: the profile of a child found in no slot is queued)
sm_evict_child_requeues_unmanaged(w, c, launchOk) ==
    LET slot == SlotOf(w, c)
    IN IF slot = None
       THEN [w |-> [w EXCEPT !.queue = push(@, w.child[c].profile)], ret |-> None]
       ELSE IF w.slotProfile[slot] = None THEN [w |-> w, ret |-> None]
       ELSE
         LET current_profile == w.slotProfile[slot]
             w1 == terminate_slot(w, slot)
             w2 == [w1 EXCEPT !.queue = push(@, current_profile)]
             popped == pop(w2.queue)
             next_profile == popped.profile
             w3 == [w2 EXCEPT !.queue = popped.queue]
         IN IF next_profile = None
            THEN [w |-> clear_slot(w3, slot), ret |-> None]
            ELSE IF launchOk
            THEN LET w4 == launch_into_slot(w3, slot, next_profile)
                 IN [w |-> w4, ret |-> w4.slotProcess[slot]]
            ELSE [w |-> [clear_slot(w3, slot) EXCEPT
                            !.queue = push_front(@, next_profile)],
                  ret |-> None]

\* SlotManager.evict_child(child, reason); launchOk is whether launch_fn
\* returns (TRUE) or raises (FALSE).  Result: the state left and the value
\* returned (the replacement, or None).
sm_evict_child(w, c, launchOk) ==
    LET slot == SlotOf(w, c)
    IN IF slot = None THEN [w |-> w, ret |-> None]
       ELSE IF w.slotProfile[slot] = None THEN [w |-> w, ret |-> None]
       ELSE
         LET current_profile == w.slotProfile[slot]
             w1 == terminate_slot(w, slot)
             w2 == [w1 EXCEPT !.queue = push(@, current_profile)]
             popped == pop(w2.queue)
             next_profile == popped.profile
             w3 == [w2 EXCEPT !.queue = popped.queue]
         IN IF next_profile = None
            THEN [w |-> clear_slot(w3, slot), ret |-> None]
            ELSE IF launchOk
            THEN LET w4 == launch_into_slot(w3, slot, next_profile)
                 IN [w |-> w4, ret |-> w4.slotProcess[slot]]
            ELSE [w |-> [clear_slot(w3, slot) EXCEPT
                            !.queue = push_front(@, next_profile)],
                  ret |-> None]

\* -------------------------------------------------------- ChildRegistry
NameOf(w, c) == w.child[c].profile

\* (variant: the deque left as it is)
remove_from_ready_kept(w, c) == w

remove_from_ready(w, c) ==
    [w EXCEPT !.ready = SelectSeq(@, LAMBDA x : x # c)]

\* (variant: the child is not appended to the deque)
mark_ready_not_queued(w, c) ==
    IF ~is_alive(w, c) THEN w
    ELSE [w EXCEPT !.child[c].ready = TRUE,
                   !.children[NameOf(w, c)] = c,
                   !.unhealthy = @ \ {NameOf(w, c)}]

\* (variant: the child is appended whether or not it is in the deque)
mark_ready_appends_always(w, c) ==
    IF ~is_alive(w, c) THEN w
    ELSE [w EXCEPT !.child[c].ready = TRUE,
                   !.children[NameOf(w, c)] = c,
                   !.unhealthy = @ \ {NameOf(w, c)},
                   !.ready = Append(@, c)]

\* (variant: no check that the process is running)
mark_ready_unchecked(w, c) ==
    [w EXCEPT !.child[c].ready = TRUE,
              !.children[NameOf(w, c)] = c,
              !.unhealthy = @ \ {NameOf(w, c)},
              !.ready = IF c \in Range(@) THEN @ ELSE Append(@, c)]

mark_ready(w, c) ==
    IF ~is_alive(w, c) THEN w
    ELSE [w EXCEPT !.child[c].ready = TRUE,
                   !.children[NameOf(w, c)] = c,
                   !.unhealthy = @ \ {NameOf(w, c)},
                   !.ready = IF c \in Range(@) THEN @ ELSE Append(@, c)]

\* ChildRegistry.mark_ready after its _is_alive check has passed
mark_ready_commit(w, c) ==
    [w EXCEPT !.child[c].ready = TRUE,
              !.children[NameOf(w, c)] = c,
              !.unhealthy = @ \ {NameOf(w, c)},
              !.ready = IF c \in Range(@) THEN @ ELSE Append(@, c)]

\* (variant: the head is returned whatever its ready flag)
RECURSIVE next_child_any_flag(_)
next_child_any_flag(w) ==
    IF w.ready = <<>> THEN [w |-> w, ret |-> None]
    ELSE LET c == Head(w.ready)
         IN IF is_alive(w, c)
            THEN [w |-> [w EXCEPT !.ready = Tail(@) \o <<c>>], ret |-> c]
            ELSE next_child_any_flag(
                     [w EXCEPT !.child[c].ready = FALSE,
                               !.unhealthy = @ \cup {NameOf(w, c)},
                               !.ready = Tail(@)])

\* (variant: the head is returned without being rotated to the back)
RECURSIVE next_child_no_rotate(_)
next_child_no_rotate(w) ==
    IF w.ready = <<>> THEN [w |-> w, ret |-> None]
    ELSE LET c == Head(w.ready)
         IN IF is_alive(w, c) /\ w.child[c].ready
            THEN [w |-> w, ret |-> c]
            ELSE next_child_no_rotate(
                     [w EXCEPT !.child[c].ready = FALSE,
                               !.unhealthy = @ \cup {NameOf(w, c)},
                               !.ready = Tail(@)])

\* Result: the state left and the child returned (None when the deque
\* has emptied).
RECURSIVE next_child(_)
next_child(w) ==
    IF w.ready = <<>> THEN [w |-> w, ret |-> None]
    ELSE LET c == Head(w.ready)
         IN IF is_alive(w, c) /\ w.child[c].ready
            THEN [w |-> [w EXCEPT !.ready = Tail(@) \o <<c>>], ret |-> c]
            ELSE next_child([w EXCEPT !.child[c].ready = FALSE,
                                      !.unhealthy = @ \cup {NameOf(w, c)},
                                      !.ready = Tail(@)])

\* (variant: the child put in the deque whatever its ready flag)
add_child_as_ready(w, c) ==
    LET w1 == [w EXCEPT !.children[NameOf(w, c)] = c]
    IN [w1 EXCEPT !.ready = IF c \in Range(@) THEN @ ELSE Append(@, c),
                  !.unhealthy = @ \ {NameOf(w, c)}]

add_child(w, c) ==
    LET w1 == [w EXCEPT !.children[NameOf(w, c)] = c]
    IN IF w1.child[c].ready /\ is_alive(w1, c)
       THEN [w1 EXCEPT !.ready = IF c \in Range(@) THEN @ ELSE Append(@, c),
                       !.unhealthy = @ \ {NameOf(w, c)}]
       ELSE [w1 EXCEPT !.child[c].ready = FALSE,
                       !.unhealthy = @ \cup {NameOf(w, c)}]

\* (variant: the name stays in the unhealthy set)
remove_child_keeps_name(w, c) ==
    LET w1 == [w EXCEPT !.children[NameOf(w, c)] = None]
    IN remove_from_ready(w1, c)

remove_child(w, c) ==
    LET w1 == [w EXCEPT !.children[NameOf(w, c)] = None]
        w2 == remove_from_ready(w1, c)
    IN [w2 EXCEPT !.unhealthy = @ \ {NameOf(w, c)}]

\* ChildRegistry._evict; sm is `self._slot_manager is not None`
evict(w, c, sm, launchOk) ==
    IF ~sm
    THEN [w |-> [w EXCEPT !.unhealthy = @ \cup {NameOf(w, c)},
                          !.children[NameOf(w, c)] = c],
          ret |-> None]
    ELSE LET r == sm_evict_child(w, c, launchOk)
             w1 == remove_child(r.w, c)
         IN [w |-> IF r.ret # None THEN add_child(w1, r.ret) ELSE w1,
             ret |-> r.ret]

\* (variant: the child is left in the ready deque)
mark_unhealthy_keeps_ready(w, c, sm, launchOk) ==
    LET w1 == [w EXCEPT !.child[c].ready = FALSE]
    IN IF sm THEN evict(w1, c, sm, launchOk).w
       ELSE [w1 EXCEPT !.unhealthy = @ \cup {NameOf(w, c)},
                       !.children[NameOf(w, c)] = c]

\* (variant: the slot manager is never asked to evict)
mark_unhealthy_no_evict(w, c, sm, launchOk) ==
    LET w1 == remove_from_ready([w EXCEPT !.child[c].ready = FALSE], c)
    IN [w1 EXCEPT !.unhealthy = @ \cup {NameOf(w, c)},
                  !.children[NameOf(w, c)] = c]

mark_unhealthy(w, c, sm, launchOk) ==
    LET w1 == remove_from_ready([w EXCEPT !.child[c].ready = FALSE], c)
    IN IF sm THEN evict(w1, c, sm, launchOk).w
       ELSE [w1 EXCEPT !.unhealthy = @ \cup {NameOf(w, c)},
                       !.children[NameOf(w, c)] = c]

reg_evict_child(w, c, sm, launchOk) ==
    evict([w EXCEPT !.child[c].ready = FALSE], c, sm, launchOk)

\* (variant: the process is not polled)
ready_children_no_poll(w) ==
    SelectSeq(w.ready, LAMBDA c : w.child[c].ready)

\* ChildRegistry.ready_children()
ready_children(w) ==
    SelectSeq(w.ready, LAMBDA c : w.child[c].ready /\ is_alive(w, c))

\* ------------------------------------------------------------------ Init
\* main.assign_ports(count, base_api, base_stream, base_camoufox, step)
assign_ports(count, base_api, base_stream, base_camoufox, step) ==
    [index \in 1..count |->
        <<base_api + (index - 1) * step,
          base_stream + (index - 1) * step,
          base_camoufox + (index - 1) * step>>]

\* no request is being handled
\* no call of wait_for_ready is in progress
NoProbe == [child |-> None, now |-> 0, deadline |-> 0, attempt |-> 0, seen |-> <<>>]

\* SlotManager.evict_child is not running
NoSmCall == [by |-> "none", child |-> None, slot |-> None, next |-> None]

CallInit ==
    /\ probe = NoProbe
    /\ mrChild = None
    /\ notified = {}
    /\ wdChild = None
    /\ smCall = NoSmCall
    /\ rot = [q |-> <<>>, n |-> 0]
    /\ stopEvent = FALSE
    /\ monTasks = <<>>
    /\ monTask = None
    /\ shpc = "idle"

ReqInit ==
    /\ reqpc = "idle"
    /\ attempted = {}
    /\ reqChild = None
    /\ reqStatus = None
    /\ reqForwards = <<>>

\* main(): n profiles discovered, min(PROFILE_POOL_SIZE, n) slots, the rest
\* of the profiles staged in the rotation queue; nothing launched yet.
InitN(maxProfiles) ==
    /\ \E n \in 1..maxProfiles :
        LET active == Min(PROFILE_POOL_SIZE, n)
        IN /\ profiles = [i \in 1..n |-> i]
           /\ slotProfile = [s \in 1..active |-> None]
           /\ slotProcess = [s \in 1..active |-> None]
           /\ slotPorts = assign_ports(active, DEFAULT_CHILD_BASE_API_PORT,
                                       DEFAULT_CHILD_BASE_STREAM_PORT,
                                       DEFAULT_CHILD_BASE_CAMOUFOX_PORT,
                                       DEFAULT_PORT_INCREMENT)
           /\ queue = [i \in 1..(n - active) |-> active + i]
    /\ child = <<>>
    /\ lock = "free"
    /\ mainpc = "bootstrap"
    /\ exitCode = <<>>
    /\ hasSM = TRUE
    /\ children = [nm \in Names |-> None]
    /\ ready = <<>>
    /\ unhealthy = {}
    /\ pollNames = {}
    /\ pollCur = None
    /\ last = NoCall
    /\ rrBase = <<>>
    /\ rrSeq = <<>>
    /\ initIdx = 0
    /\ ReqInit
    /\ CallInit

InitMain == InitN(NProfiles)

InitCoord == InitN(RegProfiles)

\* ChildRegistry(children) without a slot manager, as the registry tests
\* build it: NChildren running children with distinct names and the default
\* ready = False, so the constructor's _add_child files each under unhealthy.
InitReg ==
    /\ profiles = [i \in 1..NChildren |-> i]
    /\ slotProfile = <<>>
    /\ slotProcess = <<>>
    /\ slotPorts = <<>>
    /\ queue = <<>>
    /\ child = [i \in 1..NChildren |->
                  [profile |-> i, ports |-> <<8000, 8100, 8200>>,
                   alive |-> TRUE, ready |-> FALSE]]
    /\ lock = "free"
    /\ mainpc = "running"
    /\ exitCode = <<>>
    /\ hasSM = FALSE
    /\ children = [nm \in Names |-> IF nm <= NChildren THEN nm ELSE None]
    /\ ready = <<>>
    /\ unhealthy = 1..NChildren
    /\ pollNames = {}
    /\ pollCur = None
    /\ last = NoCall
    /\ rrBase = <<>>
    /\ rrSeq = <<>>
    /\ initIdx = 0
    /\ ReqInit
    /\ CallInit

\* a step that is not a next_child call ends the current run of calls
EndRun == rrBase' = <<>> /\ rrSeq' = <<>>

PollUnchanged == UNCHANGED <<pollNames, pollCur>>

MainUnchanged == UNCHANGED <<profiles, initIdx, reqVars, callVars, lock, mainpc, exitCode, hasSM>>

\* --------------------------------------------------------------- actions
\* SlotManager.bootstrap(profiles[:nb]).  More profiles than slots: ValueError
\* before anything is launched.  Otherwise failAt = 0: every launch succeeds;
\* failAt = k: launching the k-th profile raises, the k-1 slots launched so
\* far are terminated and the exception is re-raised.
\* (variant: the profiles assigned to the slots in reverse order)
RECURSIVE LaunchAll_reversed(_, _)
LaunchAll_reversed(w, k) ==
    IF k = 0 THEN w
    ELSE launch_into_slot(LaunchAll_reversed(w, k - 1),
                          Len(w.slotProfile) - k + 1, profiles[k])

RECURSIVE LaunchAll(_, _)
LaunchAll(w, k) ==
    IF k = 0 THEN w ELSE launch_into_slot(LaunchAll(w, k - 1), k, profiles[k])

\* (variant: the slots launched so far are left as they are)
TerminateAll_skipped(w, k) == w

RECURSIVE TerminateAll(_, _)
TerminateAll(w, k) ==
    IF k = 0 THEN w ELSE terminate_slot(TerminateAll(w, k - 1), k)

\* SlotManager.live_children(): the occupants of the slots, in slot order
live_children(w) ==
    LET occ == SelectSeq([s \in 1..Len(w.slotProcess) |-> s],
                         LAMBDA s : w.slotProcess[s] # None)
    IN [i \in 1..Len(occ) |-> w.slotProcess[occ[i]]]

BootstrapOf(nb) ==
    /\ mainpc = "bootstrap"
    /\ lock = "free"
    /\ IF nb > Cardinality(Slots)
       THEN /\ SetWorld(World)
            /\ mainpc' = "bootstrap_failed"
            /\ last' = Call("bootstrap", nb, None, FALSE, None, None)
       ELSE \E failAt \in 0..nb :
            IF failAt = 0
            THEN /\ SetWorld(LaunchAll(World, nb))
                 /\ mainpc' = "launched"
                 /\ last' = Call("bootstrap", nb, None, TRUE, None, None)
            ELSE /\ SetWorld(TerminateAll(LaunchAll(World, failAt - 1),
                                          failAt - 1))
                 /\ mainpc' = "bootstrap_failed"
                 /\ last' = Call("bootstrap", nb, failAt, FALSE, None, None)
    /\ EndRun
    /\ PollUnchanged
    /\ UNCHANGED <<profiles, initIdx, reqVars, callVars, lock, exitCode, hasSM>>

\* main(): slot_manager.bootstrap(profiles[:active_count]), one profile per slot
Bootstrap == BootstrapOf(Cardinality(Slots))

\* bootstrap called with any prefix of the discovered profiles
BootstrapAny == \E nb \in 0..Len(profiles) : BootstrapOf(nb)

\* main(): registry = ChildRegistry(children, slot_manager=slot_manager)
RECURSIVE AddAll(_, _)
AddAll(w, k) ==
    IF k = 0 THEN w ELSE add_child(AddAll(w, k - 1), k)

RegistryInit ==
    /\ mainpc = "launched"
    /\ SetWorld(AddAll(World, Cardinality(Slots)))
    /\ mainpc' = "running"
    /\ last' = Call("registry", None, None, FALSE, None, None)
    /\ EndRun
    /\ PollUnchanged
    /\ UNCHANGED <<profiles, initIdx, reqVars, callVars, lock, exitCode, hasSM>>

\* A direct call of SlotManager.evict_child with any child handle ever created
SlotEvictChild ==
    /\ mainpc = "launched"
    /\ lock = "free"
    /\ \E c \in Children :
       \E launchOk \in IF SlotOf(World, c) # None THEN BOOLEAN ELSE {FALSE} :
        /\ launchOk => Len(child) < MaxLaunches
        /\ LET r == sm_evict_child(World, c, launchOk)
           IN /\ SetWorld(r.w)
              /\ last' = Call("sm_evict_child", c, r.ret, launchOk, c, r.ret)
    /\ EndRun
    /\ PollUnchanged
    /\ MainUnchanged

\* The OS process of a child exits on its own
ProcessExit ==
    /\ \E c \in Children :
        /\ child[c].alive
        /\ child' = [child EXCEPT ![c].alive = FALSE]
    /\ last' = NoCall
    /\ EndRun
    /\ PollUnchanged
    /\ MainUnchanged
    /\ UNCHANGED <<slotProfile, slotProcess, slotPorts, queue, children, ready, unhealthy>>

\* main(), bootstrap failed: slot_manager.shutdown("bootstrap failure").
\* shutdown takes self._lock and terminates every slot; still inside the
\* with block it calls self.clear_queue().
ShutdownEnter ==
    /\ mainpc = "bootstrap_failed"
    /\ lock = "free"
    /\ lock' = "shutdown"
    /\ SetWorld(TerminateAll(World, Cardinality(Slots)))
    /\ mainpc' = "shutdown_clear_queue"
    /\ last' = Call("shutdown", None, None, FALSE, None, None)
    /\ EndRun
    /\ PollUnchanged
    /\ UNCHANGED <<profiles, initIdx, reqVars, callVars, exitCode, hasSM>>

\* main(), KeyboardInterrupt during the startup health checks:
\* graceful_shutdown(slot_manager.live_children()); the slots are not cleared.
StartupInterrupt ==
    /\ mainpc = "running"
    /\ lock = "free"
    /\ child' = [c \in Children |->
                   IF \E s \in Slots : slotProcess[s] = c
                   THEN [child[c] EXCEPT !.alive = FALSE] ELSE child[c]]
    /\ mainpc' = "interrupt_clear_queue"
    /\ last' = Call("graceful_shutdown", None, None, FALSE, None, None)
    /\ EndRun
    /\ PollUnchanged
    /\ UNCHANGED <<profiles, initIdx, reqVars, callVars, lock, exitCode, hasSM, slotProfile, slotProcess, slotPorts,
                   queue, children, ready, unhealthy>>

\* SlotManager.clear_queue(): `with self._lock: self._queue.clear()`.  The
\* lock is a threading.Lock, so the call waits until the lock is free, also
\* when the caller is the one holding it.  When it returns to shutdown, the
\* with block of shutdown ends and main returns 1; when it returns to the
\* startup-interrupt path main returns 0.
ClearQueue ==
    /\ mainpc \in {"shutdown_clear_queue", "interrupt_clear_queue"}
    /\ lock = "free"
    /\ queue' = <<>>
    /\ lock' = "free"
    /\ exitCode' = IF mainpc = "shutdown_clear_queue" THEN <<1>> ELSE <<0>>
    /\ mainpc' = "exited"
    /\ last' = Call("clear_queue", None, None, FALSE, None, None)
    /\ EndRun
    /\ PollUnchanged
    /\ UNCHANGED <<profiles, initIdx, reqVars, callVars, hasSM, slotProfile, slotProcess, slotPorts, child,
                   children, ready, unhealthy>>

\* -------------------------------------------------- registry operations
\* The registry calls the slot manager only when it has one, and then has
\* to take its lock.
SMFree == hasSM => lock = "free"

\* launch_fn is called, and its outcome is an input, only when the slot
\* manager finds the child in a slot
LaunchChoices(c) ==
    IF hasSM /\ SlotOf(World, c) # None THEN BOOLEAN ELSE {FALSE}

MarkReady ==
    /\ mainpc = "running"
    /\ \E c \in Children :
        /\ SetWorld(mark_ready(World, c))
        /\ last' = Call("mark_ready", c, None, FALSE, None, None)
    /\ EndRun
    /\ PollUnchanged
    /\ MainUnchanged

MarkUnhealthy ==
    /\ mainpc = "running"
    /\ SMFree
    /\ \E c \in Children : \E launchOk \in LaunchChoices(c) :
        /\ launchOk => Len(child) < RegLaunches
        /\ SetWorld(mark_unhealthy(World, c, hasSM, launchOk))
        /\ last' = Call("mark_unhealthy", c, None, launchOk,
                        IF hasSM THEN c ELSE None,
                        IF hasSM THEN sm_evict_child(World, c, launchOk).ret
                        ELSE None)
    /\ EndRun
    /\ PollUnchanged
    /\ MainUnchanged

RegEvictChild ==
    /\ mainpc = "running"
    /\ SMFree
    /\ \E c \in Children : \E launchOk \in LaunchChoices(c) :
        /\ launchOk => Len(child) < RegLaunches
        /\ LET r == reg_evict_child(World, c, hasSM, launchOk)
           IN /\ SetWorld(r.w)
              /\ last' = Call("evict_child", c, r.ret, launchOk,
                              IF hasSM THEN c ELSE None, r.ret)
    /\ EndRun
    /\ PollUnchanged
    /\ MainUnchanged

\* next_child(); the call is recorded with the number of children it demoted
Demoted(w, w2) ==
    Cardinality({c \in Range(w.ready) : c \notin Range(w2.ready)})

NextChild ==
    /\ mainpc = "running"
    /\ mrChild = None
    /\ LET r == next_child(World)
       IN /\ SetWorld(r.w)
          /\ last' = Call("next_child", Demoted(World, r.w), r.ret, FALSE,
                          None, None)
    /\ EndRun
    /\ PollUnchanged
    /\ MainUnchanged

\* next_child called as one of a run of successive calls: rrBase keeps the
\* deque the run started from and rrSeq what each call of the run returned
NextChildRun ==
    /\ mainpc = "running"
    /\ Len(rrSeq) < MaxCalls
    /\ LET r == next_child(World)
       IN /\ SetWorld(r.w)
          /\ last' = Call("next_child", Demoted(World, r.w), r.ret, FALSE,
                          None, None)
          /\ rrSeq' = Append(rrSeq, r.ret)
    /\ rrBase' = IF rrSeq = <<>> THEN ready ELSE rrBase
    /\ PollUnchanged
    /\ MainUnchanged

\* `async with self._lock` of _poll_once: held from the start of the poll
\* until the last name of the list has been dealt with
RegistryLockHeld == pollNames # {} \/ pollCur # None

\* _poll_once: `for name in list(self._unhealthy)`
PollBegin ==
    /\ mainpc = "running"
    /\ pollNames = {} /\ pollCur = None
    /\ unhealthy # {}
    /\ pollNames' = unhealthy
    /\ last' = Call("poll_once", None, None, FALSE, None, None)
    /\ EndRun
    /\ MainUnchanged
    /\ UNCHANGED <<pollCur, slotProfile, slotProcess, slotPorts, queue, child,
                   children, ready, unhealthy>>

\* _poll_once, one name of the list up to the await of the health check
PollVisit ==
    /\ mainpc = "running"
    /\ pollCur = None
    /\ \E name \in pollNames :
        /\ pollNames' = pollNames \ {name}
        /\ IF children[name] = None
           THEN /\ unhealthy' = unhealthy \ {name}
                /\ pollCur' = None
           ELSE IF ~child[children[name]].alive
           THEN UNCHANGED <<unhealthy, pollCur>>
           ELSE /\ pollCur' = children[name]
                /\ UNCHANGED unhealthy
        /\ last' = Call("poll_visit", name, None, FALSE, None, None)
    /\ EndRun
    /\ MainUnchanged
    /\ UNCHANGED <<slotProfile, slotProcess, slotPorts, queue, child, children, ready>>

\* _poll_once, the health check returns: it raised, it returned True
\* (wait_for_ready has set child.ready) or it returned False (timeout)
PollResume ==
    /\ mainpc = "running"
    /\ pollCur # None
    /\ \E outcome \in {"raise", "ready", "timeout"} :
        \/ /\ outcome = "raise"
           /\ UNCHANGED <<slotProfile, slotProcess, slotPorts, queue, child,
                          children, ready, unhealthy>>
           /\ last' = Call("poll_raise", pollCur, None, FALSE, None, None)
        \/ /\ outcome = "ready"
           /\ SetWorld(mark_ready([World EXCEPT !.child[pollCur].ready = TRUE],
                                  pollCur))
           /\ last' = CallBy("poll_once",
                             Call("mark_ready", pollCur, None, FALSE, None, None))
        \/ /\ outcome = "timeout"
           /\ SMFree
           /\ \E launchOk \in LaunchChoices(pollCur) :
               /\ launchOk => Len(child) < RegLaunches
               /\ SetWorld(mark_unhealthy(World, pollCur, hasSM, launchOk))
               /\ last' = CallBy("poll_once",
                             Call("mark_unhealthy", pollCur, None, launchOk,
                                  IF hasSM THEN pollCur ELSE None,
                                  IF hasSM
                                  THEN sm_evict_child(World, pollCur, launchOk).ret
                                  ELSE None))
    /\ pollCur' = None
    /\ EndRun
    /\ MainUnchanged
    /\ UNCHANGED pollNames

\* main._initialize_children: the next child of the list bootstrap returned.
\* wait_for_ready returns True (it has set child.ready; the process answered,
\* so it is running) or False (60 s timeout; an exception counts as False).
InitializeChild ==
    /\ mainpc = "running"
    /\ initIdx < Cardinality(Slots)
    /\ LET c == initIdx + 1
       IN \E outcome \in {"ready", "timeout"} :
           \/ /\ outcome = "ready"
              /\ child[c].alive
              /\ SetWorld(mark_ready([World EXCEPT !.child[c].ready = TRUE], c))
              /\ last' = CallBy("startup",
                                Call("mark_ready", c, None, FALSE, None, None))
           \/ /\ outcome = "timeout"
              /\ SMFree
              /\ \E launchOk \in LaunchChoices(c) :
                  /\ launchOk => Len(child) < RegLaunches
                  /\ SetWorld(mark_unhealthy(World, c, hasSM, launchOk))
                  /\ last' = CallBy("startup",
                        Call("mark_unhealthy", c, None, launchOk,
                             IF hasSM THEN c ELSE None,
                             IF hasSM THEN sm_evict_child(World, c, launchOk).ret
                             ELSE None))
    /\ initIdx' = initIdx + 1
    /\ EndRun
    /\ PollUnchanged
    /\ UNCHANGED <<profiles, reqVars, callVars, lock, mainpc, exitCode, hasSM>>

\* main._monitor_child_processes, one slot of one sweep: the process of the
\* slot's child has exited, registry.evict_child is called for it
WatchdogEvict ==
    /\ mainpc = "running"
    /\ SMFree
    /\ \E s \in Slots :
        /\ slotProcess[s] # None
        /\ ~child[slotProcess[s]].alive
        /\ \E launchOk \in LaunchChoices(slotProcess[s]) :
            /\ launchOk => Len(child) < RegLaunches
            /\ LET r == reg_evict_child(World, slotProcess[s], hasSM, launchOk)
               IN /\ SetWorld(r.w)
                  /\ last' = CallBy("watchdog",
                        Call("evict_child", slotProcess[s], r.ret, launchOk,
                             slotProcess[s], r.ret))
    /\ EndRun
    /\ PollUnchanged
    /\ MainUnchanged

\* ------------------------------------------- api.py: the request handlers
\* chat_completions and list_models run the same loop.  The handler runs
\* without interruption from one await to the next, so one step goes from the
\* return of an await to the next `await forward_...` or to the end.
\* (variant: the name of the chosen child is not remembered)
attempted_add_forgets(names, name) == names

\* attempted.add(child.profile.name)
attempted_add(names, name) == names \cup {name}

\* Top of the loop: child = registry.next_child(); 503 if it is None or its
\* name is in attempted, otherwise the name is remembered and the forward
\* begins.  Result: the state left, what next_child returned, the status
\* raised (None: none) and the new value of attempted.
req_select(w, names) ==
    LET r == next_child(w)
    IN IF r.ret = None \/ NameOf(w, r.ret) \in names
       THEN [w |-> r.w, ret |-> r.ret, status |-> 503, attempted |-> names]
       ELSE [w |-> r.w, ret |-> r.ret, status |-> None,
             attempted |-> attempted_add(names, NameOf(w, r.ret))]

\* the handler's variables after req_select
SetReq(sel) ==
    /\ SetWorld(sel.w)
    /\ attempted' = sel.attempted
    /\ reqStatus' = sel.status
    /\ IF sel.status = None
       THEN /\ reqpc' = "forward"
            /\ reqChild' = sel.ret
            /\ reqForwards' = Append(reqForwards, NameOf(sel.w, sel.ret))
       ELSE /\ reqpc' = "done"
            /\ reqChild' = None
            /\ UNCHANGED reqForwards

\* The body of a chat-completions request: not JSON, JSON that is not a
\* ChatCompletionRequest, a request with stream = true, any other valid one
\* (list_models takes no body and goes on like the last).
Payloads == {"invalid_json", "invalid_schema", "stream", "valid"}

\* (variant: the first child is chosen before the payload is looked at)
req_arrive_selects_first(w, payload) ==
    LET sel == req_select(w, {})
    IN IF payload = "invalid_json"
       THEN [w |-> sel.w, ret |-> None, status |-> 400, attempted |-> {}]
       ELSE IF payload = "invalid_schema"
       THEN [w |-> sel.w, ret |-> None, status |-> 422, attempted |-> {}]
       ELSE IF payload = "stream"
       THEN [w |-> sel.w, ret |-> None, status |-> 400, attempted |-> {}]
       ELSE sel

\* the handler from the arrival of the request: 400 / 422 / 400 for the
\* three kinds of rejected payload, otherwise `attempted = set()` and the
\* first pass of the loop
req_arrive(w, payload) ==
    IF payload = "invalid_json"
    THEN [w |-> w, ret |-> None, status |-> 400, attempted |-> {}]
    ELSE IF payload = "invalid_schema"
    THEN [w |-> w, ret |-> None, status |-> 422, attempted |-> {}]
    ELSE IF payload = "stream"
    THEN [w |-> w, ret |-> None, status |-> 400, attempted |-> {}]
    ELSE req_select(w, {})

\* a request arrives
ReqStart ==
    /\ mainpc = "running"
    /\ reqpc = "idle"
    /\ \E payload \in Payloads :
       LET sel == req_arrive(World, payload)
       IN /\ SetReq(sel)
          /\ last' = CallBy("request",
                Call(CASE payload = "valid" -> "request"
                       [] payload = "stream" -> "reject_stream"
                       [] payload = "invalid_json" -> "reject_json"
                       [] payload = "invalid_schema" -> "reject_schema",
                     None, sel.ret, FALSE, None, None))
    /\ EndRun
    /\ PollUnchanged
    /\ UNCHANGED <<profiles, initIdx, callVars, lock, mainpc, exitCode, hasSM>>

\* The awaited forward_completion / forward_models returns a response, which
\* is relayed, or raises ChildRequestError: with retryable False 502, with
\* retryable True registry.mark_unhealthy(child) and the next pass of the loop
ReqForwardReturn ==
    /\ mainpc = "running"
    /\ reqpc = "forward"
    /\ \E outcome \in {"response", "retryable", "fatal"} :
        \/ /\ outcome = "response"
           /\ SetWorld(World)
           /\ reqStatus' = 200
           /\ reqpc' = "done"
           /\ last' = CallBy("request",
                             Call("relay", reqChild, None, FALSE, None, None))
           /\ UNCHANGED <<attempted, reqChild, reqForwards>>
        \/ /\ outcome = "fatal"
           /\ SetWorld(World)
           /\ reqStatus' = 502
           /\ reqpc' = "done"
           /\ last' = CallBy("request",
                             Call("fatal", reqChild, None, FALSE, None, None))
           /\ UNCHANGED <<attempted, reqChild, reqForwards>>
        \/ /\ outcome = "retryable"
           /\ SMFree
           /\ \E launchOk \in LaunchChoices(reqChild) :
               /\ launchOk => Len(child) < RegLaunches
               /\ LET w1 == mark_unhealthy(World, reqChild, hasSM, launchOk)
                      sel == req_select(w1, attempted)
                  IN /\ SetReq(sel)
                     /\ last' = CallBy("request",
                           Call("mark_unhealthy", reqChild, sel.ret, launchOk,
                                IF hasSM THEN reqChild ELSE None,
                                IF hasSM
                                THEN sm_evict_child(World, reqChild, launchOk).ret
                                ELSE None))
    /\ EndRun
    /\ PollUnchanged
    /\ UNCHANGED <<profiles, initIdx, callVars, lock, mainpc, exitCode, hasSM>>

\* the response has been sent; the next request can come
ReqEnd ==
    /\ mainpc = "running"
    /\ reqpc = "done"
    /\ reqpc' = "idle"
    /\ attempted' = {}
    /\ reqChild' = None
    /\ reqStatus' = None
    /\ reqForwards' = <<>>
    /\ last' = NoCall
    /\ EndRun
    /\ PollUnchanged
    /\ UNCHANGED <<profiles, initIdx, callVars, lock, mainpc, exitCode, hasSM,
                   slotProfile, slotProcess, slotPorts, queue, child,
                   children, ready, unhealthy>>

\* a caller calls registry.mark_unhealthy(c, r1) and then
\* registry.mark_unhealthy(c, r2); ok1, ok2: the outcomes of launch_fn
MarkUnhealthyTwice ==
    /\ mainpc = "running"
    /\ SMFree
    /\ \E c \in Children : \E ok1 \in LaunchChoices(c) :
        LET w1 == mark_unhealthy(World, c, hasSM, ok1)
        IN \E ok2 \in IF hasSM /\ SlotOf(w1, c) # None
                       THEN BOOLEAN ELSE {FALSE} :
            /\ (ok1 \/ ok2) => Len(child) < RegLaunches
            /\ SetWorld(mark_unhealthy(w1, c, hasSM, ok2))
            /\ last' = Call("mark_unhealthy_twice", c, None, ok1,
                            IF hasSM THEN c ELSE None,
                            IF hasSM THEN sm_evict_child(World, c, ok1).ret
                            ELSE None)
    /\ EndRun
    /\ PollUnchanged
    /\ MainUnchanged

\* a caller calls registry.mark_ready(c) and then registry.mark_ready(c)
MarkReadyTwice ==
    /\ mainpc = "running"
    /\ \E c \in Children :
        /\ SetWorld(mark_ready(mark_ready(World, c), c))
        /\ last' = Call("mark_ready_twice", c, None, FALSE, None, None)
    /\ EndRun
    /\ PollUnchanged
    /\ MainUnchanged

\* ------------------------------------- api.py: readiness and cancellation
\* ChildRegistry.all_children(): the values of the children map (here in the
\* order of their names)
all_children(w) ==
    LET nms == SelectSeq([nm \in 1..Len(w.children) |-> nm],
                         LAMBDA nm : w.children[nm] # None)
    IN [i \in 1..Len(nms) |-> w.children[nms[i]]]

\* _ready_payload(): status code and body
ready_payload(w) ==
    LET rc == ready_children(w)
    IN [status_code |-> IF rc # <<>> THEN 200 ELSE 503,
        status |-> IF rc # <<>> THEN "ready" ELSE "degraded",
        ready_children |-> [i \in 1..Len(rc) |-> NameOf(w, rc[i])],
        unhealthy_children |-> w.unhealthy,
        total_children |-> Len(all_children(w)),
        deprecation_notice |-> FALSE]

\* health(): _ready_payload() with the X-Deprecation-Notice header added
health_payload(w) == [ready_payload(w) EXCEPT !.deprecation_notice = TRUE]

\* GET /ready or GET /health
GetReady ==
    /\ mainpc = "running"
    /\ \E endpoint \in {"ready", "health"} :
        LET response == IF endpoint = "ready" THEN ready_payload(World)
                        ELSE health_payload(World)
        IN last' = CallBy("request",
                      Call(endpoint, None, response.status_code,
                           response.status = "ready", None, None))
    /\ SetWorld(World)
    /\ EndRun
    /\ PollUnchanged
    /\ MainUnchanged

\* what the POST to a child's /v1/cancel/{req_id} gives: status 200, another
\* status, or an httpx.HTTPError
CancelOutcomes == {"200", "other_status", "http_error"}

\* (variant: any response counts as an answer)
RECURSIVE broadcast_cancel_any_status(_, _, _)
broadcast_cancel_any_status(w, cs, outcome) ==
    IF cs = <<>> THEN [success |-> FALSE, responders |-> <<>>, failures |-> <<>>]
    ELSE LET c == cs[Len(cs)]
             r == broadcast_cancel_any_status(w, SubSeq(cs, 1, Len(cs) - 1),
                                              outcome)
             responders == IF outcome[c] # "http_error"
                           THEN Append(r.responders, NameOf(w, c))
                           ELSE r.responders
             failures == IF outcome[c] # "http_error" THEN r.failures
                         ELSE Append(r.failures, NameOf(w, c))
         IN [success |-> responders # <<>>, responders |-> responders,
             failures |-> failures]

\* routing.broadcast_cancel(children, req_id): the children are posted to in
\* order; the CancelResult returned
RECURSIVE broadcast_cancel(_, _, _)
broadcast_cancel(w, cs, outcome) ==
    IF cs = <<>> THEN [success |-> FALSE, responders |-> <<>>, failures |-> <<>>]
    ELSE LET c == cs[Len(cs)]
             r == broadcast_cancel(w, SubSeq(cs, 1, Len(cs) - 1), outcome)
             responders == IF outcome[c] = "200"
                           THEN Append(r.responders, NameOf(w, c))
                           ELSE r.responders
             failures == IF outcome[c] = "200" THEN r.failures
                         ELSE Append(r.failures, NameOf(w, c))
         IN [success |-> responders # <<>>, responders |-> responders,
             failures |-> failures]

\* POST /v1/cancel/{req_id}: broadcast to registry.all_children(), 200 if
\* the result says success, else 404
CancelRequest ==
    /\ mainpc = "running"
    /\ \E outcome \in [Children -> CancelOutcomes] :
        LET result == broadcast_cancel(World, all_children(World), outcome)
        IN last' = CallBy("request",
                      Call("cancel",
                           [outcome |-> outcome,
                            responders |-> result.responders,
                            failures |-> result.failures],
                           IF result.success THEN 200 ELSE 404,
                           result.success, None, None))
    /\ SetWorld(World)
    /\ EndRun
    /\ PollUnchanged
    /\ MainUnchanged

\* ------------------------------------------------ health.py: wait_for_ready
\* what one GET /health of a child gives: a 200 whose JSON object has status
\* "OK", a 200 whose object has another status, a 200 whose JSON is not an
\* object, a 200 whose body is not JSON, another status code, or an
\* httpx.HTTPError
AttemptKinds ==
    {"ok", "not_ok", "non_object", "bad_json", "other_status", "http_error"}

\* (variant: any 200 with a JSON object counts as ready)
wait_attempt_any_object(p, kind, dur) ==
    LET t == p.now + dur
        q == [p EXCEPT !.now = t, !.attempt = @ + 1, !.seen = Append(@, kind)]
    IN IF kind \in {"ok", "not_ok"}
       THEN [pc |-> "return", ret |-> TRUE, ready |-> TRUE, p |-> q]
       ELSE IF kind = "non_object"
       THEN [pc |-> "raise", ret |-> FALSE, ready |-> FALSE, p |-> q]
       ELSE IF t >= p.deadline \/ t + 1 > p.deadline
       THEN [pc |-> "return", ret |-> FALSE, ready |-> FALSE,
             p |-> [q EXCEPT !.now = IF t >= p.deadline THEN t ELSE t + 1]]
       ELSE [pc |-> "loop", ret |-> FALSE, ready |-> FALSE,
             p |-> [q EXCEPT !.now = t + 1]]

\* one iteration of the while loop of wait_for_ready, from the answer of
\* client.get to the next client.get or to the return: the request took dur,
\* asyncio.sleep(1.0) takes 1; data.get on a JSON value that is not an object
\* raises AttributeError, which the except clause does not name. `ready` says
\* whether child.ready is assigned True.
wait_attempt(p, kind, dur) ==
    LET t == p.now + dur
        q == [p EXCEPT !.now = t, !.attempt = @ + 1, !.seen = Append(@, kind)]
    IN IF kind = "ok"
       THEN [pc |-> "return", ret |-> TRUE, ready |-> TRUE, p |-> q]
       ELSE IF kind = "non_object"
       THEN [pc |-> "raise", ret |-> FALSE, ready |-> FALSE, p |-> q]
       ELSE IF t >= p.deadline \/ t + 1 > p.deadline
       THEN [pc |-> "return", ret |-> FALSE, ready |-> FALSE,
             p |-> [q EXCEPT !.now = IF t >= p.deadline THEN t ELSE t + 1]]
       ELSE [pc |-> "loop", ret |-> FALSE, ready |-> FALSE,
             p |-> [q EXCEPT !.now = t + 1]]

\* the frame of the steps of wait_for_ready
ProbeUnchanged ==
    /\ UNCHANGED <<slotProfile, slotProcess, slotPorts, queue, children,
                   ready, unhealthy, mrChild, thrVars>>
    /\ EndRun
    /\ PollUnchanged
    /\ UNCHANGED <<profiles, initIdx, reqVars, lock, mainpc, exitCode, hasSM>>

\* wait_for_ready(child, timeout) up to its first client.get: the clock reads
\* 0 when the deadline is computed and lag when the loop condition is first
\* evaluated
WaitBegin ==
    /\ mainpc = "running"
    /\ probe = NoProbe
    /\ \E c \in Children, timeout \in -1..MaxTimeout, lag \in 0..1 :
        LET deadline == IF timeout > 0 THEN timeout ELSE 0
            p == [child |-> c, now |-> lag, deadline |-> deadline,
                  attempt |-> 0, seen |-> <<>>]
        IN IF lag <= deadline
           THEN /\ probe' = p
                /\ last' = Call("wait_for_ready_begin", c, None, TRUE,
                                None, None)
           ELSE /\ probe' = NoProbe
                /\ last' = Call("wait_for_ready", [p EXCEPT !.now = lag],
                                0, TRUE, None, None)
    /\ UNCHANGED child
    /\ ProbeUnchanged

\* wait_for_ready from the answer of one client.get on
WaitAttempt ==
    /\ probe # NoProbe
    /\ \E kind \in AttemptKinds, dur \in 0..MaxDur :
        LET r == wait_attempt(probe, kind, dur)
        IN /\ child' = IF r.ready THEN [child EXCEPT ![probe.child].ready = TRUE]
                       ELSE child
           /\ IF r.pc = "loop"
              THEN /\ probe' = r.p
                   /\ last' = Call("wait_for_ready_attempt", probe.child, None,
                                   TRUE, None, None)
              ELSE /\ probe' = NoProbe
                   /\ last' = Call("wait_for_ready", r.p,
                                   IF r.ret THEN 1 ELSE 0, r.pc = "return",
                                   None, None)
    /\ ProbeUnchanged

\* ------------------------------------------------- main.py: assign_ports
\* (variant: a step of zero is accepted)
assign_ports_checked_step_zero(count, base_api, base_stream, base_camoufox, step) ==
    IF count < 0 \/ step < 0
    THEN [raised |-> TRUE, ports |-> <<>>]
    ELSE [raised |-> FALSE,
          ports |-> assign_ports(count, base_api, base_stream, base_camoufox,
                                 step)]

\* main.assign_ports with its argument checks: ValueError for a negative
\* count or a step that is not positive, else the list of triplets
assign_ports_checked(count, base_api, base_stream, base_camoufox, step) ==
    IF count < 0 \/ step <= 0
    THEN [raised |-> TRUE, ports |-> <<>>]
    ELSE [raised |-> FALSE,
          ports |-> assign_ports(count, base_api, base_stream, base_camoufox,
                                 step)]

\* the base ports a call is given: the defaults of config.py and a second
\* value for each
BasePorts ==
    [api : {DEFAULT_CHILD_BASE_API_PORT, 8000},
     stream : {DEFAULT_CHILD_BASE_STREAM_PORT, 8001},
     camoufox : {DEFAULT_CHILD_BASE_CAMOUFOX_PORT, 8002}]

\* a call of assign_ports
AssignPorts ==
    /\ \E count \in -1..MaxCount, step \in -1..MaxStep, base \in BasePorts :
        LET r == assign_ports_checked(count, base.api, base.stream,
                                      base.camoufox, step)
        IN last' = Call("assign_ports",
                        [count |-> count, step |-> step, base |-> base,
                         ports |-> r.ports],
                        None, ~r.raised, None, None)
    /\ SetWorld(World)
    /\ EndRun
    /\ PollUnchanged
    /\ MainUnchanged

\* --------------------------- mark_ready on the event loop, step by step
\* mark_ready(child) up to the answer of _is_alive: a child whose process
\* has exited is refused, else the call goes on in MarkReadyCommit
MarkReadyCheck ==
    /\ mainpc = "running"
    /\ mrChild = None
    /\ \E c \in Children :
        /\ mrChild' = IF is_alive(World, c) THEN c ELSE None
        /\ last' = Call("mark_ready_check", c, None, is_alive(World, c),
                        None, None)
    /\ SetWorld(World)
    /\ UNCHANGED <<probe, thrVars>>
    /\ EndRun
    /\ PollUnchanged
    /\ UNCHANGED <<profiles, initIdx, reqVars, lock, mainpc, exitCode, hasSM>>

\* the rest of mark_ready(child)
MarkReadyCommit ==
    /\ mrChild # None
    /\ SetWorld(mark_ready_commit(World, mrChild))
    /\ last' = Call("mark_ready", mrChild, None, TRUE, None, None)
    /\ mrChild' = None
    /\ UNCHANGED <<probe, thrVars>>
    /\ EndRun
    /\ PollUnchanged
    /\ UNCHANGED <<profiles, initIdx, reqVars, lock, mainpc, exitCode, hasSM>>

\* ------------------------------------------- recycles that all succeed
\* SlotManager.evict_child(child, reason) on a slot occupant, launch_fn
\* returning.  rot counts the recycles of the current round: a round begins
\* with the queue as it is then and lasts as many recycles as it is long.
Recycle ==
    /\ mainpc = "launched"
    /\ lock = "free"
    /\ Len(child) < MaxLaunches
    /\ \E c \in Children :
        /\ SlotOf(World, c) # None
        /\ LET r == sm_evict_child(World, c, TRUE)
               round == IF rot.n >= Len(rot.q) THEN [q |-> queue, n |-> 0]
                        ELSE rot
           IN /\ SetWorld(r.w)
              /\ rot' = [round EXCEPT !.n = @ + 1]
              /\ last' = Call("sm_evict_child", c, r.ret, TRUE, c, r.ret)
    /\ EndRun
    /\ PollUnchanged
    /\ UNCHANGED <<profiles, initIdx, reqVars, probe, mrChild, wdVars, smCall,
                   monVars, lock, mainpc, exitCode, hasSM>>

\* ------------------- the watchdog thread and the event loop, lock by lock
\* SlotManager.evict_child from `with self._lock` to the launch of the
\* replacement: the slot found, its occupant terminated, its profile pushed,
\* the next profile popped.  pc says whether the call goes on to launch_fn
\* or has returned None.
sm_evict_begin(w, c) ==
    LET slot == SlotOf(w, c)
    IN IF slot = None \/ w.slotProfile[slot] = None
       THEN [pc |-> "return", w |-> w, slot |-> None, next |-> None]
       ELSE
         LET current_profile == w.slotProfile[slot]
             w1 == terminate_slot(w, slot)
             w2 == [w1 EXCEPT !.queue = push(@, current_profile)]
             popped == pop(w2.queue)
             w3 == [w2 EXCEPT !.queue = popped.queue]
         IN IF popped.profile = None
            THEN [pc |-> "return", w |-> clear_slot(w3, slot), slot |-> None,
                  next |-> None]
            ELSE [pc |-> "launch", w |-> w3, slot |-> slot,
                  next |-> popped.profile]

\* SlotManager.evict_child from launch_fn to the end of the with block
sm_evict_finish(w, slot, next_profile, launchOk) ==
    IF launchOk
    THEN LET w4 == launch_into_slot(w, slot, next_profile)
         IN [w |-> w4, ret |-> w4.slotProcess[slot]]
    ELSE [w |-> [clear_slot(w, slot) EXCEPT
                    !.queue = push_front(@, next_profile)],
          ret |-> None]

\* ChildRegistry._evict after the slot manager has returned
evict_return(w, c, replacement) ==
    LET w1 == remove_child(w, c)
    IN IF replacement # None THEN add_child(w1, replacement) ELSE w1

\* the thread started at main.py:370-376 runs until monitor_stop is set; on
\* the startup-interrupt path nothing sets it
WatchdogRunning == mainpc \in {"running", "interrupt_clear_queue"}

\* (variant: every process gets the same pid)
Pid_shared(c) == 0

\* process.pid: the OS gives every process launched its own
Pid(c) == c

\* key = (child.profile.name, pid)
Key(c) == <<child[c].profile, Pid(c)>>

\* what the steps of the two threads leave alone
ThreadUnchanged ==
    /\ EndRun
    /\ PollUnchanged
    /\ UNCHANGED <<profiles, initIdx, reqVars, probe, mrChild, rot, monVars,
                   mainpc, exitCode, hasSM>>

\* (variant: the report is not recorded in the set)
WatchdogReadSlot_no_record(s) ==
    /\ WatchdogRunning
    /\ wdChild = None
    /\ smCall.by # "watchdog"
    /\ LET c == slotProcess[s]
       IN /\ IF c = None
             THEN UNCHANGED <<notified, wdChild>>
             ELSE IF child[c].alive
             THEN notified' = notified \ {Key(c)} /\ UNCHANGED wdChild
             ELSE IF Key(c) \in notified
             THEN UNCHANGED <<notified, wdChild>>
             ELSE notified' = notified /\ wdChild' = c
          /\ last' = CallBy("watchdog",
                        Call("watchdog_read", s, c, lock = "free", None, None))
    /\ SetWorld(World)
    /\ UNCHANGED <<lock, smCall>>
    /\ ThreadUnchanged

\* _monitor_child_processes, one slot of the for loop up to the call of
\* registry.evict_child: slot_manager.slots() and slot.process are read
\* without the slot manager's lock
WatchdogReadSlot(s) ==
    /\ WatchdogRunning
    /\ wdChild = None
    /\ smCall.by # "watchdog"
    /\ LET c == slotProcess[s]
       IN /\ IF c = None
             THEN UNCHANGED <<notified, wdChild>>
             ELSE IF child[c].alive
             THEN notified' = notified \ {Key(c)} /\ UNCHANGED wdChild
             ELSE IF Key(c) \in notified
             THEN UNCHANGED <<notified, wdChild>>
             ELSE notified' = notified \cup {Key(c)} /\ wdChild' = c
          /\ last' = CallBy("watchdog",
                        Call("watchdog_read", s, c, lock = "free", None, None))
    /\ SetWorld(World)
    /\ UNCHANGED <<lock, smCall>>
    /\ ThreadUnchanged

\* the for loop visits every slot, one round a second
WatchdogRead == \E s \in Slots : WatchdogReadSlot(s)

\* the child a thread is about to evict: the watchdog the one it has found
\* exited (registry.evict_child), the event loop any handle a request or a
\* probe holds (registry.mark_unhealthy)
EvictArgs(t) ==
    IF t = "watchdog" THEN (IF wdChild = None THEN {} ELSE {wdChild})
    ELSE IF mainpc = "running" THEN Children ELSE {}

\* registry.evict_child / registry.mark_unhealthy up to launch_fn inside
\* SlotManager.evict_child, which waits for the lock
EvictEnterBy(t) ==
    /\ lock = "free"
    /\ smCall = NoSmCall
    /\ \E c \in EvictArgs(t) :
        LET w0 == [World EXCEPT !.child[c].ready = FALSE]
            w1 == IF t = "loop" THEN remove_from_ready(w0, c) ELSE w0
            b == sm_evict_begin(w1, c)
        IN IF b.pc = "return"
           THEN /\ SetWorld(evict_return(b.w, c, None))
                /\ UNCHANGED <<lock, smCall>>
                /\ wdChild' = IF t = "watchdog" THEN None ELSE wdChild
                /\ last' = CallBy(t, Call("evict_child", c, None, FALSE, c, None))
           ELSE /\ SetWorld(b.w)
                /\ lock' = t
                /\ smCall' = [by |-> t, child |-> c, slot |-> b.slot,
                              next |-> b.next]
                /\ UNCHANGED wdChild
                /\ last' = CallBy(t, Call("evict_enter", c, None, FALSE, c, None))
    /\ UNCHANGED notified
    /\ ThreadUnchanged

EvictEnter == \E t \in {"watchdog", "loop"} : EvictEnterBy(t)

\* launch_fn returns or raises; the lock is released and the registry
\* replaces the child
EvictFinish ==
    /\ smCall # NoSmCall
    /\ \E launchOk \in BOOLEAN :
        /\ launchOk => Len(child) < RegLaunches
        /\ LET f == sm_evict_finish(World, smCall.slot, smCall.next, launchOk)
           IN /\ SetWorld(evict_return(f.w, smCall.child, f.ret))
              /\ last' = CallBy(smCall.by,
                            Call("evict_child", smCall.child, f.ret, launchOk,
                                 smCall.child, f.ret))
    /\ lock' = "free"
    /\ smCall' = NoSmCall
    /\ wdChild' = IF smCall.by = "watchdog" THEN None ELSE wdChild
    /\ UNCHANGED notified
    /\ ThreadUnchanged

\* mark_ready on the event loop, which is not inside an eviction
LoopMarkReady ==
    /\ smCall.by # "loop"
    /\ MarkReady

\* main(), the server has returned: monitor_stop.set(), the watchdog thread
\* is joined, here at the end of a round of its loop,
\* and graceful_shutdown(slot_manager.live_children()) stops the occupants
MainShutdown ==
    /\ mainpc = "running"
    /\ lock = "free"
    /\ wdChild = None /\ smCall = NoSmCall
    /\ child' = [c \in Children |->
                   IF c \in Range(live_children(World))
                   THEN [child[c] EXCEPT !.alive = FALSE] ELSE child[c]]
    /\ mainpc' = "exited"
    /\ exitCode' = <<0>>
    /\ last' = Call("graceful_shutdown", None, None, TRUE, None, None)
    /\ EndRun
    /\ PollUnchanged
    /\ UNCHANGED <<profiles, initIdx, reqVars, callVars, lock, hasSM,
                   slotProfile, slotProcess, slotPorts, queue, children,
                   ready, unhealthy>>

\* ------------------------------------------ the monitor task's lifecycle
\* the monitor tasks that have not finished
RunningTasks == {t \in 1..Len(monTasks) : monTasks[t] # "done"}

\* (variant: a task is created whatever the state of the current one)
start_monitoring_unguarded(mt, tasks, stop) ==
    [monTask |-> Len(tasks) + 1, monTasks |-> Append(tasks, "wait"),
     stopEvent |-> FALSE]

\* ChildRegistry.start_monitoring: nothing while the current task is not
\* done; otherwise the stop event is cleared and a task created
start_monitoring(mt, tasks, stop) ==
    IF mt # None /\ tasks[mt] # "done"
    THEN [monTask |-> mt, monTasks |-> tasks, stopEvent |-> stop]
    ELSE [monTask |-> Len(tasks) + 1, monTasks |-> Append(tasks, "wait"),
          stopEvent |-> FALSE]

\* what the steps of the lifecycle leave alone
LifecycleUnchanged ==
    /\ EndRun
    /\ UNCHANGED <<profiles, initIdx, reqVars, probe, mrChild, wdVars, smCall,
                   rot, lock, mainpc, exitCode, hasSM>>

RegistryUnchanged ==
    UNCHANGED <<slotProfile, slotProcess, slotPorts, queue, child, children,
                ready, unhealthy>>

\* the startup event of the app (api.py:43-45); the events of one app run
\* one after the other, so no call arrives while shutdown is awaiting
StartMonitoring ==
    /\ shpc = "idle"
    /\ LET r == start_monitoring(monTask, monTasks, stopEvent)
       IN /\ Len(r.monTasks) <= MaxTasks
          /\ monTask' = r.monTask
          /\ monTasks' = r.monTasks
          /\ stopEvent' = r.stopEvent
          /\ last' = Call("start_monitoring", None,
                          IF r.monTasks # monTasks THEN r.monTask ELSE None,
                          r.monTasks # monTasks, None, None)
    /\ UNCHANGED shpc
    /\ PollUnchanged
    /\ RegistryUnchanged
    /\ LifecycleUnchanged

\* ChildRegistry.shutdown up to `await self._monitor_task`
RegShutdownSet ==
    /\ shpc = "idle"
    /\ stopEvent' = TRUE
    /\ shpc' = IF monTask # None THEN "awaiting" ELSE "idle"
    /\ last' = Call("shutdown_set", monTask, None, monTask = None, None, None)
    /\ UNCHANGED <<monTasks, monTask>>
    /\ PollUnchanged
    /\ RegistryUnchanged
    /\ LifecycleUnchanged

\* ChildRegistry.shutdown: the awaited task is done, the handle is dropped
RegShutdownJoin ==
    /\ shpc = "awaiting"
    /\ monTasks[monTask] = "done"
    /\ monTask' = None
    /\ shpc' = "idle"
    /\ last' = Call("shutdown", monTask, None, TRUE, None, None)
    /\ UNCHANGED <<stopEvent, monTasks>>
    /\ PollUnchanged
    /\ RegistryUnchanged
    /\ LifecycleUnchanged

\* _monitor_unhealthy: the wait for the stop event timed out and the event
\* is not set; _poll_once takes the registry's lock and lists the names
MonPoll ==
    /\ \E t \in 1..Len(monTasks) :
        /\ monTasks[t] = "wait"
        /\ ~stopEvent
        /\ ~RegistryLockHeld
        /\ \A u \in 1..Len(monTasks) : monTasks[u] # "poll"
        /\ monTasks' = [monTasks EXCEPT ![t] = "poll"]
        /\ last' = CallBy("monitor",
                      Call("poll_once", t, None, stopEvent, None, None))
    /\ pollNames' = unhealthy
    /\ UNCHANGED <<pollCur, stopEvent, monTask, shpc>>
    /\ RegistryUnchanged
    /\ LifecycleUnchanged

\* _poll_once has gone through its list and returns to the while loop
MonPollEnd ==
    /\ \E t \in 1..Len(monTasks) :
        /\ monTasks[t] = "poll"
        /\ pollNames = {} /\ pollCur = None
        /\ monTasks' = [monTasks EXCEPT ![t] = "wait"]
        /\ last' = CallBy("monitor",
                      Call("poll_done", t, None, stopEvent, None, None))
    /\ UNCHANGED <<stopEvent, monTask, shpc>>
    /\ PollUnchanged
    /\ RegistryUnchanged
    /\ LifecycleUnchanged

\* _monitor_unhealthy: the stop event is set, the loop ends, the task is done
MonStop ==
    /\ \E t \in 1..Len(monTasks) :
        /\ monTasks[t] = "wait"
        /\ stopEvent
        /\ monTasks' = [monTasks EXCEPT ![t] = "done"]
        /\ last' = CallBy("monitor",
                      Call("monitor_done", t, None, TRUE, None, None))
    /\ UNCHANGED <<stopEvent, monTask, shpc>>
    /\ PollUnchanged
    /\ RegistryUnchanged
    /\ LifecycleUnchanged

\* the poll round of a monitor task goes on
MonPollVisit ==
    /\ \E t \in 1..Len(monTasks) : monTasks[t] = "poll"
    /\ PollVisit

MonPollResume ==
    /\ \E t \in 1..Len(monTasks) : monTasks[t] = "poll"
    /\ PollResume

\* ------------------------------------------------------- specifications
\* main() from bootstrap to the end of the startup health checks, with the
\* process watchdog thread running beside them
NextStartup ==
    \/ Bootstrap
    \/ RegistryInit
    \/ InitializeChild
    \/ WatchdogEvict
    \/ ProcessExit

SpecStartup == InitCoord /\ [][NextStartup]_vars

\* the slot manager on its own
NextSlots == Bootstrap \/ SlotEvictChild \/ ProcessExit

SpecSlots == InitMain /\ [][NextSlots]_vars

\* the slot manager on its own, bootstrapped with any number of profiles
NextBoot == BootstrapAny \/ SlotEvictChild \/ ProcessExit

SpecBoot == InitMain /\ [][NextBoot]_vars

\* main() around the slot manager: startup, interrupt and shutdown
NextMain ==
    \/ Bootstrap
    \/ RegistryInit
    \/ SlotEvictChild
    \/ ProcessExit
    \/ ShutdownEnter
    \/ StartupInterrupt
    \/ ClearQueue

SpecMain == InitMain /\ [][NextMain]_vars

\* main() keeps running: each of its own steps is taken once it can be
MainStep == Bootstrap \/ RegistryInit \/ ShutdownEnter \/ ClearQueue

FairSpecMain == SpecMain /\ WF_vars(MainStep)

\* a registry without slot manager
NextReg ==
    \/ MarkReady
    \/ MarkUnhealthy
    \/ RegEvictChild
    \/ NextChildRun
    \/ PollBegin
    \/ PollVisit
    \/ PollResume
    \/ ProcessExit

SpecReg == InitReg /\ [][NextReg]_vars

\* a registry without slot manager behind the HTTP surface: one request
\* at a time, while children are promoted and processes exit
NextApi ==
    \/ MarkReady
    \/ ProcessExit
    \/ ReqStart
    \/ ReqForwardReturn
    \/ ReqEnd

SpecApi == InitReg /\ [][NextApi]_vars

\* the coordinator serving a request: slot manager and registry behind the
\* HTTP surface
NextServe ==
    \/ Bootstrap
    \/ RegistryInit
    \/ MarkReady
    \/ ProcessExit
    \/ ReqStart
    \/ ReqForwardReturn
    \/ ReqEnd

SpecServe == InitCoord /\ [][NextServe]_vars

\* the awaited forward always returns (the HTTP client has a timeout) and
\* the event loop then runs the handler
FairSpecServe == SpecServe /\ WF_vars(ReqForwardReturn)

\* a registry without slot manager with its recovery monitor running and
\* next_child called by the request handlers
NextMonitor ==
    \/ PollBegin
    \/ PollVisit
    \/ PollResume
    \/ NextChild
    \/ ProcessExit

SpecMonitor == InitReg /\ [][NextMonitor]_vars

\* the recovery probe of child c returns True
PollReady(c) ==
    PollResume /\ pollCur = c /\ last'.op = "mark_ready"

\* The monitor task keeps polling (poll_interval after poll_interval) and
\* every awaited health check returns (it has a timeout); requests keep
\* calling next_child; and the health check of a child that is probed again
\* and again eventually succeeds.
FairSpecMonitor ==
    /\ SpecMonitor
    /\ WF_vars(PollBegin) /\ WF_vars(PollVisit) /\ WF_vars(PollResume)
    /\ WF_vars(NextChild)
    /\ \A c \in 1..NChildren : SF_vars(PollReady(c))

\* the coordinator's registry called once or twice in a row by its callers
NextTwice ==
    \/ Bootstrap
    \/ RegistryInit
    \/ MarkReady
    \/ MarkUnhealthy
    \/ MarkReadyTwice
    \/ MarkUnhealthyTwice
    \/ ProcessExit

SpecTwice == InitCoord /\ [][NextTwice]_vars

\* a registry without slot manager behind the endpoints that only read it
NextSurface ==
    \/ MarkReady
    \/ MarkUnhealthy
    \/ ProcessExit
    \/ GetReady
    \/ CancelRequest

SpecSurface == InitReg /\ [][NextSurface]_vars

\* the health prober on the children of a registry
NextHealth ==
    \/ WaitBegin
    \/ WaitAttempt

SpecHealth == InitReg /\ [][NextHealth]_vars

\* calls of assign_ports
NextPorts == AssignPorts

SpecPorts == InitReg /\ [][NextPorts]_vars

\* the watchdog thread beside the event loop: a process may exit and the
\* watchdog may evict between the steps of mark_ready
NextRace ==
    \/ Bootstrap
    \/ RegistryInit
    \/ MarkReadyCheck
    \/ MarkReadyCommit
    \/ NextChild
    \/ ProcessExit
    \/ WatchdogEvict

SpecRace == InitCoord /\ [][NextRace]_vars

\* the slot manager on its own, every replacement launch succeeding
NextRotate ==
    \/ Bootstrap
    \/ Recycle
    \/ ProcessExit

SpecRotate == InitMain /\ [][NextRotate]_vars

\* the watchdog thread and the event-loop thread sharing the slot manager
NextThreads ==
    \/ Bootstrap
    \/ RegistryInit
    \/ ProcessExit
    \/ LoopMarkReady
    \/ WatchdogRead
    \/ EvictEnter
    \/ EvictFinish

SpecThreads == InitCoord /\ [][NextThreads]_vars

\* the same two threads over a small pool, the launches counted by WdLaunches
InitWatch == InitN(WdProfiles)

WatchEvictFinish ==
    /\ EvictFinish
    /\ Len(child') <= WdLaunches

NextWatch ==
    \/ Bootstrap
    \/ RegistryInit
    \/ ProcessExit
    \/ LoopMarkReady
    \/ WatchdogRead
    \/ EvictEnter
    \/ WatchEvictFinish

SpecWatch == InitWatch /\ [][NextWatch]_vars

\* the watchdog thread keeps running: its for loop comes to every slot again
\* within a round, its call of registry.evict_child gets the slot manager's
\* lock once the lock is free, and an eviction that holds the lock finishes
WatchdogFairness ==
    /\ \A s \in 1..PROFILE_POOL_SIZE :
          WF_vars(s \in Slots /\ WatchdogReadSlot(s))
    /\ WF_vars(EvictEnterBy("watchdog"))
    /\ WF_vars(WatchEvictFinish)

FairSpecWatch == SpecWatch /\ WatchdogFairness

\* main() from bootstrap to its return, the watchdog thread beside it
NextExit ==
    \/ Bootstrap
    \/ RegistryInit
    \/ ProcessExit
    \/ WatchdogRead
    \/ EvictEnter
    \/ EvictFinish
    \/ StartupInterrupt
    \/ ClearQueue
    \/ MainShutdown

SpecExit == InitCoord /\ [][NextExit]_vars

\* a registry whose monitor is started and shut down by the app's events
NextLifecycle ==
    \/ StartMonitoring
    \/ RegShutdownSet
    \/ RegShutdownJoin
    \/ MonPoll
    \/ MonPollVisit
    \/ MonPollResume
    \/ MonPollEnd
    \/ MonStop
    \/ ProcessExit

SpecLifecycle == InitReg /\ [][NextLifecycle]_vars

\* the event loop keeps running its tasks: every awaited health check
\* returns (it has a timeout), a task that can go on does, and shutdown
\* resumes once the task it awaits is done
FairSpecLifecycle ==
    /\ SpecLifecycle
    /\ WF_vars(MonPollVisit) /\ WF_vars(MonPollResume) /\ WF_vars(MonPollEnd)
    /\ WF_vars(MonStop)
    /\ WF_vars(RegShutdownJoin)

\* the coordinator: slot manager, registry, monitor
Next ==
    \/ Bootstrap
    \/ RegistryInit
    \/ MarkReady
    \/ MarkUnhealthy
    \/ RegEvictChild
    \/ NextChild
    \/ PollBegin
    \/ PollVisit
    \/ PollResume
    \/ ProcessExit

Spec == InitCoord /\ [][Next]_vars

\* ================================================================ claims
SlotEmpty(s) == slotProfile[s] = None /\ slotProcess[s] = None

\* the step was a SlotManager.evict_child call on the occupant of a slot
SlotEvicted == last'.smArg # None /\ SlotOf(World, last'.smArg) # None

EvictedSlot == SlotOf(World, last'.smArg)

Occurrences(p) ==
    Cardinality({s \in Slots : slotProfile[s] = p})
    + Cardinality({i \in 1..Len(queue) : queue[i] = p})

\* C1: after a successful bootstrap, whatever evict_child calls follow, each
\* discovered profile is in exactly one place (one slot, or one position of
\* the rotation queue) and no other profile is anywhere.
C1_ProfileConservation ==
    mainpc = "launched" =>
        \A p \in Names : Occurrences(p) = IF p \in Range(profiles) THEN 1 ELSE 0

\* a failed replacement has left a slot empty and two replacements succeeded
C1_Witness ==
    /\ mainpc = "launched"
    /\ \E s \in Slots : SlotEmpty(s)
    /\ Len(child) >= Cardinality(Slots) + 2
    /\ Len(queue) >= 2

\* C2: evict_child on a slot's occupant, queue non-empty, launch succeeding:
\* the slot now runs the former queue head in a new child that is returned
\* with ready = FALSE, and the queue is its former tail followed by the
\* evicted profile.
C2_RecyclePromotesQueueHead ==
    [][(SlotEvicted /\ queue # <<>> /\ last'.ok) =>
         /\ last'.smRet # None
         /\ last'.smRet \notin Children
         /\ slotProcess'[EvictedSlot] = last'.smRet
         /\ slotProfile'[EvictedSlot] = Head(queue)
         /\ child'[last'.smRet].profile = Head(queue)
         /\ ~child'[last'.smRet].ready
         /\ queue' = Append(Tail(queue), slotProfile[EvictedSlot])]_vars

\* a recycle out of a queue of two has just succeeded
C2_Witness ==
    /\ last.op = "sm_evict_child" /\ last.ok /\ last.ret # None
    /\ Len(queue) >= 2
    /\ \E s \in Slots : slotProcess[s] = last.ret /\ slotProfile[s] = 3

\* C3: evict_child with an empty rotation queue leaves the slot empty,
\* returns None and registers no replacement child.
C3_EmptyQueueLeavesSlotEmpty ==
    [][(SlotEvicted /\ queue = <<>>) =>
         /\ slotProfile'[EvictedSlot] = None
         /\ slotProcess'[EvictedSlot] = None
         /\ last'.smRet = None
         /\ \A nm \in Names : children'[nm] \in Children \cup {None}]_vars

\* C4: evict_child whose replacement launch fails returns None and leaves
\* the slot empty; the candidate whose launch failed is at the front of the
\* queue, to be popped first by the next eviction, and the evicted profile at
\* the back.
C4_FailedLaunchRequeuesFront ==
    [][(SlotEvicted /\ ~last'.ok) =>
         LET evicted == slotProfile[EvictedSlot]
             candidate == Head(Append(queue, evicted))
         IN /\ last'.smRet = None
            /\ slotProfile'[EvictedSlot] = None
            /\ slotProcess'[EvictedSlot] = None
            /\ Head(queue') = candidate
            /\ pop(queue').profile = candidate
            /\ queue'[Len(queue')] = evicted
            /\ queue' = Append(queue, evicted)]_vars

\* a replacement launch has just failed with another profile waiting
C4_Witness ==
    /\ last.op = "sm_evict_child" /\ ~last.ok /\ last.smArg # None
    /\ ~child[last.smArg].alive
    /\ \E s \in Slots : SlotEmpty(s)
    /\ Len(queue) >= 2
    /\ Head(queue) # queue[Len(queue)]

\* C5: SlotManager.shutdown returns, leaving every slot empty, every child
\* process exited and the queue empty; so when bootstrap fails main comes
\* back from shutdown and returns 1.
C5_ShutdownReturns ==
    (mainpc = "bootstrap_failed") ~>
        (/\ exitCode = <<1>>
         /\ \A s \in Slots : SlotEmpty(s)
         /\ \A c \in Children : ~child[c].alive
         /\ queue = <<>>)

\* C6: no name is both the name of a child in the ready deque and a member
\* of the unhealthy set.
C6_ReadyUnhealthyDisjoint ==
    \A i \in 1..Len(ready) : child[ready[i]].profile \notin unhealthy

Eligible(c) == child[c].alive /\ child[c].ready

FirstEligible ==
    LET E == {i \in 1..Len(ready) : Eligible(ready[i])}
    IN IF E = {} THEN Len(ready) + 1 ELSE CHOOSE i \in E : \A j \in E : i <= j

\* C8: next_child returns the first child of the deque whose process runs
\* and whose ready flag is set, rotated to the back; every child in front of
\* it has left the deque with ready = FALSE and its name in unhealthy; it
\* returns None exactly when the deque holds no such child.
C8_NextChildSkipsUnavailable ==
    [][last'.op = "next_child" =>
         LET k == FirstEligible
         IN /\ last'.ret # None => Eligible(last'.ret)
            /\ last'.ret = None <=> k > Len(ready)
            /\ last'.ret # None => last'.ret = ready[k]
            /\ \A i \in 1..(k - 1) :
                 /\ ready[i] \notin Range(ready')
                 /\ ~child'[ready[i]].ready
                 /\ child[ready[i]].profile \in unhealthy'
            /\ ready' = IF k > Len(ready) THEN <<>>
                        ELSE SubSeq(ready, k + 1, Len(ready)) \o <<ready[k]>>
            /\ last'.arg = k - 1]_vars

\* next_child demoted a child and returned the one behind it
C8_Witness ==
    /\ last.op = "next_child" /\ last.arg >= 1 /\ last.ret # None
    /\ \E nm \in unhealthy : children[nm] # last.ret /\ ~child[children[nm]].ready

Count(seq, x) == Cardinality({i \in 1..Len(seq) : seq[i] = x})

\* C9: K successive next_child calls on a deque of M children that all run
\* and are ready return them in the cyclic order of the deque, each between
\* floor(K/M) and ceil(K/M) times.
C9_RoundRobin ==
    (rrSeq # <<>> /\ rrBase # <<>> /\ \A c \in Range(rrBase) : Eligible(c)) =>
        LET M == Len(rrBase)
            K == Len(rrSeq)
        IN /\ \A i \in 1..K : rrSeq[i] = rrBase[((i - 1) % M) + 1]
           /\ \A c \in Range(rrBase) :
                /\ Count(rrSeq, c) >= K \div M
                /\ Count(rrSeq, c) <= (K + M - 1) \div M
           /\ \A i, j \in 1..K :
                (i < j /\ rrSeq[i] = rrSeq[j]) =>
                    \A c \in Range(rrBase) :
                        \E h \in i..(j - 1) : rrSeq[h] = c

\* a full run of calls over two healthy children
C9_Witness ==
    /\ Len(rrSeq) = MaxCalls
    /\ Len(rrBase) >= 2
    /\ \A c \in Range(rrBase) : Eligible(c)

\* C10, registry without slot manager: mark_unhealthy(A) leaves A's name in
\* unhealthy and A out of the deque; A comes back into the deque only by
\* mark_ready(A); next_child returns only members of the deque, returns the
\* one remaining eligible child when there is exactly one, and returns None
\* when the deque is empty.
C10_UnhealthyNotServed ==
    [][/\ last'.op = "mark_unhealthy" =>
            /\ child[last'.arg].profile \in unhealthy'
            /\ last'.arg \notin Range(ready')
            /\ ~child'[last'.arg].ready
       /\ \A c \in Range(ready') :
            c \notin Range(ready) => last'.op = "mark_ready" /\ last'.arg = c
       /\ last'.op = "next_child" =>
            /\ last'.ret # None => last'.ret \in Range(ready)
            /\ ready = <<>> => last'.ret = None
            /\ \A b \in Range(ready) :
                 (Eligible(b) /\ \A c \in Range(ready) : Eligible(c) => c = b)
                     => last'.ret = b]_vars

\* after mark_unhealthy of one child the other is the one next_child returns
C10_Witness ==
    /\ ~hasSM
    /\ last.op = "next_child" /\ last.ret # None
    /\ Len(ready) = 1
    /\ \E nm \in unhealthy : children[nm] # last.ret
    /\ Len(rrSeq) >= 2 /\ rrSeq[Len(rrSeq) - 1] = last.ret

\* the step was a SlotManager.bootstrap call that raised
BootstrapRaised == last'.op = "bootstrap" /\ ~last'.ok

\* C17: a bootstrap call that raises leaves nothing behind.  When launching
\* the k-th profile raises, the k-1 children launched earlier in the call are
\* all terminated, every slot is cleared (no profile, no child) and the error
\* reaches the caller; when there are more profiles than slots the call raises
\* and no child has been launched at all.
C17_BootstrapAllOrNothing ==
    [][BootstrapRaised =>
        /\ mainpc' = "bootstrap_failed"
        /\ \A s \in Slots : slotProfile'[s] = None /\ slotProcess'[s] = None
        /\ \A c \in 1..Len(child') : ~child'[c].alive
        /\ Len(child') = IF last'.arg > Cardinality(Slots) THEN 0
                         ELSE last'.ret - 1]_vars

\* the second launch of a bootstrap raised after the first had succeeded
C17_Witness ==
    /\ last.op = "bootstrap" /\ ~last.ok
    /\ last.ret = 2
    /\ Len(child) = 1 /\ ~child[1].alive
    /\ \A s \in Slots : SlotEmpty(s)

\* the step was a SlotManager.bootstrap call that returned
BootstrapReturned == last'.op = "bootstrap" /\ last'.ok

\* C18: a bootstrap call that returns has put the i-th profile it was given
\* in the i-th slot, with a running child launched for that profile, has left
\* the rotation queue as it was, and live_children() is exactly the children
\* launched, one per profile, in slot order.
C18_BootstrapAssignsInOrder ==
    [][BootstrapReturned =>
        LET nb == last'.arg
        IN /\ \A i \in 1..nb :
                /\ slotProfile'[i] = profiles[i]
                /\ slotProcess'[i] \in 1..Len(child')
                /\ child'[slotProcess'[i]].profile = profiles[i]
                /\ child'[slotProcess'[i]].alive
           /\ \A i \in 1..nb : \A j \in 1..nb :
                i # j => slotProcess'[i] # slotProcess'[j]
           /\ \A s \in Slots : s > nb =>
                slotProfile'[s] = None /\ slotProcess'[s] = None
           /\ Len(child') = nb
           /\ queue' = queue
           /\ live_children(World') = [i \in 1..nb |-> slotProcess'[i]]]_vars

\* a bootstrap of two profiles has returned while profiles wait in the queue
C18_Witness ==
    /\ last.op = "bootstrap" /\ last.ok
    /\ last.arg = 2
    /\ queue # <<>>
    /\ Len(live_children(World)) = 2

\* C19: whenever the slot manager's lock is free, a slot that holds a child
\* records as its profile the profile that child was launched with.
C19_SlotProfileMatchesChild ==
    lock = "free" =>
        \A s \in Slots :
            slotProcess[s] # None =>
                slotProfile[s] = child[slotProcess[s]].profile

\* a slot holds a replacement launched by evict_child, another slot was left
\* empty by a failed launch
C19_Witness ==
    /\ lock = "free"
    /\ \E s \in Slots : slotProcess[s] > Cardinality(Slots)
    /\ \E s \in Slots : SlotEmpty(s)

\* C20: the port triple of a slot never changes, two slots never have the
\* same triple, the child held by a slot carries that slot's ports, and every
\* child ever launched carries the ports of one of the slots.
C20_SlotPortsFixed ==
    /\ [][slotPorts' = slotPorts]_vars
    /\ [](\A s \in Slots : \A t \in Slots :
            s # t => /\ slotPorts[s] # slotPorts[t]
                     /\ \A i \in 1..3 : slotPorts[s][i] # slotPorts[t][i])
    /\ [](\A s \in Slots :
            slotProcess[s] # None => child[slotProcess[s]].ports = slotPorts[s])
    /\ [](\A c \in Children : \E s \in Slots : child[c].ports = slotPorts[s])

\* the second slot holds a replacement, launched after a failed launch
\* had left a slot empty
C20_Witness ==
    /\ Cardinality(Slots) = 2
    /\ slotProcess[2] > 2
    /\ child[slotProcess[2]].ports = slotPorts[2]
    /\ \E c \in Children : ~child[c].alive /\ child[c].ports = slotPorts[2]
    /\ Len(child) >= 4

\* C13, registry with slot manager: when mark_unhealthy or evict_child has
\* the slot manager evict the child of a slot, that child is afterwards
\* neither in the ready deque nor in the children map; the replacement the
\* slot manager returns, if any, is in the children map with ready = FALSE, its
\* name in unhealthy, and is not in the ready deque.  A child comes into the
\* deque only by mark_ready, and next_child returns only members of the deque.
C13_ReplacementStartsUnhealthy ==
    [][/\ (last'.op \in {"mark_unhealthy", "evict_child"} /\ SlotEvicted) =>
            LET c == last'.smArg
                r == last'.smRet
            IN /\ c \notin Range(ready')
               /\ \A nm \in Names : children'[nm] # c
               /\ r # None =>
                    /\ children'[child'[r].profile] = r
                    /\ ~child'[r].ready
                    /\ child'[r].profile \in unhealthy'
                    /\ r \notin Range(ready')
       /\ \A c \in Range(ready') :
            c \notin Range(ready) => last'.op = "mark_ready" /\ last'.arg = c
       /\ (last'.op = "next_child" /\ last'.ret # None) =>
            last'.ret \in Range(ready)]_vars

\* mark_unhealthy has had a slot recycled: the replacement is registered and
\* unhealthy while the child of the other slot is still in the deque
C13_Witness ==
    /\ last.op = "mark_unhealthy"
    /\ last.smArg # None /\ last.smRet # None
    /\ children[child[last.smRet].profile] = last.smRet
    /\ child[last.smRet].profile \in unhealthy
    /\ ~child[last.smArg].alive
    /\ ready # <<>>

\* the step was the return of a recovery probe with False (timeout), for a
\* child that is in a slot
PollTimeout ==
    /\ last'.by = "poll_once" /\ last'.op = "mark_unhealthy"
    /\ SlotOf(World, pollCur) # None

\* C15 as stated: a single failed recovery probe leaves the child in its
\* slot.  (_poll_once probes each name of list(self._unhealthy) once, so every
\* failed probe is the child's first of the round.)
C15_SingleFailureKeepsSlot ==
    [][PollTimeout =>
        /\ slotProcess'[SlotOf(World, pollCur)] = pollCur
        /\ child'[pollCur].alive]_vars

\* C15, amended: the recovery probe of an unhealthy child that returns False
\* makes the monitor call mark_unhealthy at once, and the slot manager
\* recycles the slot: the child's process is terminated and the slot no
\* longer holds it.  A probe that raises changes nothing.
C15_FailedProbeRecycles ==
    [][/\ PollTimeout =>
            /\ last'.smArg = pollCur
            /\ ~child'[pollCur].alive
            /\ slotProcess'[SlotOf(World, pollCur)] # pollCur
            /\ pollCur \notin Range(ready')
       /\ last'.op = "poll_raise" =>
            UNCHANGED <<slotProfile, slotProcess, queue, child, children,
                        ready, unhealthy>>]_vars

\* a recovery probe has timed out and the slot was given to the next profile
C15_Witness ==
    /\ last.by = "poll_once" /\ last.op = "mark_unhealthy"
    /\ last.smArg # None /\ last.smRet # None
    /\ ~child[last.smArg].alive
    /\ child[last.smRet].profile # child[last.smArg].profile

\* the step was a startup readiness probe that timed out
StartupTimeout == last'.by = "startup" /\ last'.op = "mark_unhealthy"

\* C14: a child whose startup readiness probe times out is only marked
\* unhealthy: its process keeps running, every slot keeps its profile and
\* child, the rotation queue is unchanged, and its name is in unhealthy.
C14_StartupTimeoutOnlyMarks ==
    [][StartupTimeout =>
        /\ child'[last'.arg].alive = child[last'.arg].alive
        /\ slotProfile' = slotProfile
        /\ slotProcess' = slotProcess
        /\ queue' = queue
        /\ child[last'.arg].profile \in unhealthy']_vars

NoDuplicates(seq) ==
    \A i \in 1..Len(seq) : \A j \in 1..Len(seq) : seq[i] = seq[j] => i = j

\* the step ran the top of the retry loop (on arrival or after a retryable
\* error); RetryStep: after a retryable error
LoopStep == last'.by = "request" /\ last'.op \in {"request", "mark_unhealthy"}

RetryStep == last'.by = "request" /\ last'.op = "mark_unhealthy"

\* C11: within one request no child name is forwarded to twice, and the names
\* forwarded to are the set attempted; a retryable forward error takes that
\* child out of the ready deque with ready = FALSE before the next child is
\* asked for; the request ends with 503 exactly when next_child returns None
\* or a child whose name was already attempted, and otherwise forwards to
\* the child returned; and a request that is waiting for a forward always
\* comes to an end, whatever promotions and process exits happen meanwhile.
C11_RetryLoopTerminates ==
    /\ [](NoDuplicates(reqForwards) /\ Range(reqForwards) = attempted)
    /\ [][RetryStep =>
            /\ reqChild \notin Range(ready')
            /\ ~child'[reqChild].ready]_vars
    /\ [][LoopStep =>
            LET ret == last'.ret
                before == IF last'.op = "request" THEN {} ELSE attempted
            IN IF ret = None \/ child[ret].profile \in before
               THEN reqStatus' = 503 /\ reqpc' = "done"
                    /\ reqForwards' = reqForwards
               ELSE reqStatus' = None /\ reqpc' = "forward"
                    /\ reqChild' = ret
                    /\ reqForwards' = Append(reqForwards, child[ret].profile)]_vars
    /\ (reqpc = "forward") ~> (reqpc = "done")

\* a request has ended with 503 after two forwards because next_child
\* returned a child promoted meanwhile under a name already attempted
C11_Witness ==
    /\ reqpc = "done" /\ reqStatus = 503
    /\ Len(reqForwards) = 2
    /\ last.ret # None
    /\ child[last.ret].profile \in attempted

\* C12, registry without slot manager: when the forward to a child A raises
\* a retryable error, A's name is in unhealthy and A is out of the ready deque
\* while the other children of the deque stay in it, and the child B that
\* next_child returns, if not attempted yet, is forwarded to; when the forward to B returns a response, the request ends
\* with 200 relayed from B and the registry is left as it was, B still in the
\* deque with ready = TRUE.
C12_RetryOnUnhealthy ==
    /\ [][RetryStep =>
            /\ child[reqChild].profile \in unhealthy'
            /\ reqChild \notin Range(ready')
            /\ \A b \in Range(ready) :
                 (b # reqChild /\ Eligible(b)) => b \in Range(ready')
            /\ (last'.ret # None /\ child[last'.ret].profile \notin attempted)
                 => /\ reqpc' = "forward"
                    /\ reqChild' = last'.ret /\ reqChild' # reqChild]_vars
    /\ [][last'.op = "relay" =>
            /\ reqStatus' = 200
            /\ reqChild' = reqChild
            /\ child[reqChild].profile = reqForwards[Len(reqForwards)]
            /\ reqChild \in Range(ready') /\ child'[reqChild].ready
            /\ UNCHANGED <<children, ready, unhealthy, child>>]_vars

\* the request went to A, then to B, and B's response was relayed: A is
\* unhealthy and out of the deque, B is ready
C12_Witness ==
    /\ last.op = "relay" /\ reqStatus = 200
    /\ Len(reqForwards) = 2
    /\ reqForwards[1] \in unhealthy
    /\ children[reqForwards[1]] \notin Range(ready)
    /\ child[reqChild].profile = reqForwards[2]
    /\ reqChild \in Range(ready) /\ Eligible(reqChild)

\* C16, registry without slot manager, monitor running: an unhealthy child
\* whose health check eventually succeeds is eventually returned by
\* next_child, unless its process exits; a child comes into the ready deque
\* only when a recovery probe of it has succeeded, and next_child returns
\* only children of the deque whose name is not in unhealthy, so a child
\* whose probes keep failing is not returned.
C16_MonitorRepromotes ==
    /\ \A c \in 1..NChildren :
         (child[c].profile \in unhealthy /\ child[c].alive)
             ~> ((last.op = "next_child" /\ last.ret = c) \/ ~child[c].alive)
    /\ [][\A c \in Range(ready') :
             c \notin Range(ready) =>
                 /\ last'.by = "poll_once" /\ last'.op = "mark_ready"
                 /\ last'.arg = c]_vars
    /\ [][(last'.op = "next_child" /\ last'.ret # None) =>
             /\ last'.ret \in Range(ready)
             /\ child[last'.ret].profile \notin unhealthy]_vars

\* next_child has returned a child the monitor promoted, while the other
\* child, still running, is still unhealthy
C16_Witness ==
    /\ last.op = "next_child" /\ last.ret # None
    /\ child[last.ret].alive /\ child[last.ret].profile \notin unhealthy
    /\ \E c \in Children :
         c # last.ret /\ child[c].alive /\ child[c].profile \in unhealthy

\* C21: mark_unhealthy(c, r1) followed by mark_unhealthy(c, r2) leaves every
\* slot's profile and child, the rotation queue and the processes as the
\* first call alone leaves them; and a mark_unhealthy call for a child that is
\* in no slot changes none of them.
C21_MarkUnhealthyIdempotentOnSlots ==
    [][/\ last'.op = "mark_unhealthy_twice" =>
            LET once == mark_unhealthy(World, last'.arg, hasSM, last'.ok)
            IN /\ slotProfile' = once.slotProfile
               /\ slotProcess' = once.slotProcess
               /\ queue' = once.queue
               /\ \A c \in 1..Len(child') :
                    c \in 1..Len(once.child)
                    /\ child'[c].alive = once.child[c].alive
       /\ (last'.op = "mark_unhealthy" /\ SlotOf(World, last'.arg) = None) =>
            /\ UNCHANGED <<slotProfile, slotProcess, queue>>
            /\ \A c \in Children : child'[c].alive = child[c].alive]_vars

\* the first of two mark_unhealthy calls recycled the slot; after the second
\* the replacement still runs in it
C21_Witness ==
    /\ last.op = "mark_unhealthy_twice"
    /\ last.smRet # None
    /\ SlotOf(World, last.smRet) # None
    /\ child[last.smRet].alive
    /\ ~child[last.arg].alive

\* C22: mark_ready(c) followed by mark_ready(c) leaves the children map, the
\* ready deque (contents and order), the unhealthy set and c.ready as the
\* first call alone leaves them, and c is in the deque at most once.
C22_MarkReadyIdempotent ==
    [][last'.op = "mark_ready_twice" =>
        LET c == last'.arg
            once == mark_ready(World, c)
        IN /\ children' = once.children
           /\ ready' = once.ready
           /\ unhealthy' = once.unhealthy
           /\ child' = once.child
           /\ Count(ready', c) <= 1]_vars

\* mark_ready was called twice for a running child that now sits once, behind
\* another child, in the deque
C22_Witness ==
    /\ last.op = "mark_ready_twice"
    /\ child[last.arg].alive
    /\ Count(ready, last.arg) = 1
    /\ Len(ready) = 2

\* C23: a chat-completions request that asks for streaming ends with 400
\* without any child being chosen: nothing is forwarded, and the ready deque
\* (with its order), the unhealthy set, the children map and every child are
\* as before.
C23_StreamingRejected ==
    [][last'.op = "reject_stream" =>
        /\ reqStatus' = 400 /\ reqpc' = "done"
        /\ reqForwards' = <<>> /\ attempted' = {} /\ reqChild' = None
        /\ UNCHANGED <<ready, unhealthy, children, child, slotProfile,
                       slotProcess, queue>>]_vars

\* a streaming request was rejected while the deque held two children, its
\* head one whose process has exited, which next_child would have demoted
C23_Witness ==
    /\ last.op = "reject_stream" /\ reqStatus = 400
    /\ Len(ready) = 2
    /\ ~child[ready[1]].alive

\* C24: GET /ready answers 200 with status "ready" exactly when some
\* registered child is in the ready deque with ready = TRUE and a running
\* process, and 503 with status "degraded" otherwise; GET /health gives the
\* same status code and the same body in the same state.
C24_ReadyEndpoint ==
    [][last'.op \in {"ready", "health"} =>
        LET some == \E c \in Range(ready) :
                        Eligible(c) /\ children[child[c].profile] = c
            r == ready_payload(World)
            h == health_payload(World)
        IN /\ some => last'.ret = 200 /\ last'.ok
           /\ ~some => last'.ret = 503 /\ ~last'.ok
           /\ h.status_code = r.status_code /\ h.status = r.status
           /\ h.ready_children = r.ready_children
           /\ h.unhealthy_children = r.unhealthy_children
           /\ h.total_children = r.total_children
           /\ last'.ret = r.status_code
           /\ UNCHANGED <<ready, unhealthy, children, child>>]_vars

\* /ready has answered 503 while the deque holds a child with ready = TRUE
\* whose process has exited
C24_Witness ==
    /\ last.op = "ready" /\ last.ret = 503
    /\ \E c \in Range(ready) : child[c].ready /\ ~child[c].alive

\* C25: every child given to broadcast_cancel has its name exactly once in
\* responders and failures together: in responders when it answered 200, in
\* failures on a transport error or another status; success is TRUE exactly
\* when responders is not empty; the endpoint answers 200 on success and 404
\* otherwise.
C25_CancelFanOut ==
    [][last'.op = "cancel" =>
        LET a == last'.arg
            cs == all_children(World)
        IN /\ \A i \in 1..Len(cs) :
                LET nm == child[cs[i]].profile
                IN /\ Count(a.responders, nm) + Count(a.failures, nm) = 1
                   /\ Count(a.responders, nm) = 1 <=> a.outcome[cs[i]] = "200"
           /\ Len(a.responders) + Len(a.failures) = Len(cs)
           /\ last'.ok <=> a.responders # <<>>
           /\ last'.ret = IF last'.ok THEN 200 ELSE 404
           /\ UNCHANGED <<ready, unhealthy, children, child>>]_vars

\* a cancel was answered 200 by one child and failed on the other
C25_Witness ==
    /\ last.op = "cancel" /\ last.ret = 200
    /\ Len(last.arg.responders) = 1
    /\ Len(last.arg.failures) = 1

\* C26: wait_for_ready returns TRUE only when its last attempt saw a 200
\* whose JSON status is "OK", and then child.ready is TRUE; an attempt that
\* gave another status code, a body that is not JSON, a transport error or a
\* JSON status other than "OK" does not raise and leaves child.ready as it
\* was; the loop goes on only while the deadline has not passed, and a call
\* that returns FALSE does so with the deadline reached.
C26_WaitForReady ==
    [][/\ last'.op = "wait_for_ready" =>
            LET a == last'.arg
            IN /\ last'.ret = 1 =>
                    /\ a.attempt >= 1
                    /\ a.seen[a.attempt] = "ok"
                    /\ child'[a.child].ready
                    /\ last'.ok
               /\ (last'.ret = 0 /\ last'.ok) => a.now >= a.deadline
               /\ Range(a.seen) \subseteq
                      {"not_ok", "bad_json", "other_status", "http_error"} =>
                    last'.ok /\ last'.ret = 0
               /\ (a.attempt = 0 \/ a.seen[a.attempt] # "ok") =>
                    UNCHANGED child
               /\ Len(a.seen) = a.attempt
       /\ last'.op \in {"wait_for_ready_attempt", "wait_for_ready_begin"} =>
            /\ UNCHANGED child
            /\ probe'.now <= probe'.deadline
            /\ "ok" \notin Range(probe'.seen)
            /\ "non_object" \notin Range(probe'.seen)
       /\ last'.op \in {"wait_for_ready", "wait_for_ready_attempt",
                         "wait_for_ready_begin"} =>
            UNCHANGED <<ready, unhealthy, children>>]_vars

\* a call saw a wrong status code, a body that is not JSON and a transport
\* error, and returned FALSE at the deadline with the child not ready
C26_Witness ==
    /\ last.op = "wait_for_ready"
    /\ last.ret = 0 /\ last.ok
    /\ last.arg.attempt = 3
    /\ Range(last.arg.seen) = {"bad_json", "other_status", "http_error"}
    /\ ~child[last.arg.child].ready

\* C27: for count >= 0 and step >= 1 assign_ports returns count triplets,
\* the i-th (from 0) being the three base ports plus i * step, so that each
\* of the three port sequences rises by step from one triplet to the next
\* and count = 0 gives the empty list; for count < 0 or step <= 0 it raises
\* and returns no list.
C27_AssignPorts ==
    [][last'.op = "assign_ports" =>
        LET a == last'.arg
            b == <<a.base.api, a.base.stream, a.base.camoufox>>
        IN /\ (a.count >= 0 /\ a.step >= 1) =>
                /\ last'.ok
                /\ Len(a.ports) = a.count
                /\ \A i \in 1..a.count : \A k \in 1..3 :
                      a.ports[i][k] = b[k] + (i - 1) * a.step
                /\ \A i \in 1..(a.count - 1) : \A k \in 1..3 :
                      /\ a.ports[i + 1][k] > a.ports[i][k]
                      /\ a.ports[i + 1][k] - a.ports[i][k] = a.step
           /\ (a.count < 0 \/ a.step <= 0) =>
                ~last'.ok /\ a.ports = <<>>]_vars

\* three triplets were assigned with step 2
C27_Witness ==
    /\ last.op = "assign_ports" /\ last.ok
    /\ last.arg.count = 3 /\ last.arg.step = 2
    /\ last.arg.ports[3] = <<last.arg.base.api + 4, last.arg.base.stream + 4,
                             last.arg.base.camoufox + 4>>

\* C28: with registry.evict_child called from the watchdog thread while the
\* event loop runs mark_ready and next_child, no child that occupies no slot
\* is in the ready deque, and next_child returns none.
C28_ReadyAreOccupants ==
    mainpc = "running" =>
        /\ \A c \in Range(ready) : SlotOf(World, c) # None
        /\ (last.op = "next_child" /\ last.ret # None) =>
                SlotOf(World, last.ret) # None

\* C29: once the registry has been built, every child that occupies a slot
\* is in the registry's children map under its profile name.
C29_OccupantsRegistered ==
    (mainpc = "running" /\ hasSM) =>
        \A s \in Slots :
            slotProcess[s] # None =>
                children[child[slotProcess[s]].profile] = slotProcess[s]

\* C30: no step made while the registry's async mutex is held takes the slot
\* manager's OS mutex (SlotManager.evict_child runs under it).
C30_NeverBothLocks ==
    [][(RegistryLockHeld /\ last'.by = "poll_once") => last'.smArg = None]_vars

\* C37: SlotManager.evict_child on a child that occupies no slot returns
\* None and leaves every slot's profile and child, the rotation queue and
\* every process as they were.
C37_UnmanagedEvictionIsNoOp ==
    [][(last'.op = "sm_evict_child" /\ SlotOf(World, last'.arg) = None) =>
        /\ last'.ret = None
        /\ UNCHANGED <<slotProfile, slotProcess, slotPorts, queue, child>>]_vars

\* evict_child was called on a child evicted earlier, while its old slot runs
\* the replacement and a profile waits in the queue
C37_Witness ==
    /\ last.op = "sm_evict_child" /\ last.ret = None
    /\ SlotOf(World, last.arg) = None
    /\ ~child[last.arg].alive
    /\ queue # <<>>
    /\ \E s \in Slots :
        /\ slotPorts[s] = child[last.arg].ports
        /\ slotProcess[s] # None
        /\ child[slotProcess[s]].alive

\* C39: once the registry is built, a slot that is empty stays empty whatever
\* the slot manager, the registry or the monitor do next, and a replacement
\* is launched only into the slot whose occupant is being evicted: the
\* candidate a failed launch left at the queue front is launched when another,
\* occupied slot is recycled.
C39_EmptySlotStaysEmpty ==
    [][mainpc = "running" =>
        /\ \A s \in Slots :
              SlotEmpty(s) => slotProcess'[s] = None /\ slotProfile'[s] = None
        /\ Len(child') > Len(child) =>
              /\ last'.smArg # None
              /\ SlotOf(World, last'.smArg) # None
              /\ slotProcess'[SlotOf(World, last'.smArg)] = Len(child')
              /\ child'[Len(child')].profile = Head(queue \o <<0>>)
                  \/ queue = <<>>]_vars

\* a slot was emptied by a failed launch, and the recycle of the other slot
\* has just launched the profile that launch had left at the queue front
C39_Witness ==
    /\ mainpc = "running"
    /\ \E s \in Slots : SlotEmpty(s)
    /\ last.smArg # None /\ last.smRet # None
    /\ Len(queue) = 2
    /\ queue[2] = child[last.smArg].profile
    /\ \E s \in Slots : slotProcess[s] = last.smRet

C38_Pos(q, p) ==
    IF \E i \in 1..Len(q) : q[i] = p
    THEN CHOOSE i \in 1..Len(q) : q[i] = p
    ELSE 0

\* C38: when every replacement launch succeeds the rotation queue is FIFO
\* across recycles: the profile at position k (from 0) of the queue is the
\* one launched by the (k+1)-th recycle that follows, no queued profile is
\* overtaken by one queued behind it, and the evicted profile joins at the
\* tail.
C38_RotationIsFifo ==
    [][(last'.op = "sm_evict_child" /\ last'.ok /\ rot'.q # <<>>) =>
        /\ last'.ret # None
        /\ child'[last'.ret].profile = rot'.q[rot'.n]
        /\ \E s \in Slots : slotProfile'[s] = rot'.q[rot'.n]
        /\ \A i, j \in 1..Len(queue) :
              i < j =>
                 \/ queue[i] = child'[last'.ret].profile
                 \/ /\ C38_Pos(queue', queue[i]) > 0
                    /\ C38_Pos(queue', queue[i]) < C38_Pos(queue', queue[j])
        /\ queue'[Len(queue')] = child[last'.arg].profile
        /\ \A k \in (rot'.n + 1)..Len(rot'.q) :
              queue'[k - rot'.n] = rot'.q[k]]_vars

\* the second recycle of a round that began with two profiles queued has
\* launched the second of them
C38_Witness ==
    /\ last.op = "sm_evict_child" /\ last.ok
    /\ Len(rot.q) = 2 /\ rot.n = 2
    /\ child[last.ret].profile = rot.q[2]
    /\ rot.q[1] \in Range(slotProfile) \cup Range(queue)

\* the two-step eviction leaves what SlotManager.evict_child leaves
SmEvictSplitAgrees ==
    \A c \in Children : \A launchOk \in BOOLEAN :
        LET b == sm_evict_begin(World, c)
            whole == sm_evict_child(World, c, launchOk)
        IN IF b.pc = "return" THEN whole.w = b.w /\ whole.ret = None
           ELSE whole = sm_evict_finish(b.w, b.slot, b.next, launchOk)

\* C31: every step of a thread that changes a slot's profile or child or the
\* rotation queue is made with the slot manager's lock held by that thread,
\* and every read of a slot's occupant by the watchdog is made with the lock
\* held by the watchdog.
C31_SlotAccessUnderLock ==
    [][/\ (last'.by \in {"watchdog", "loop"}
             /\ <<slotProfile, slotProcess, queue>>' #
                    <<slotProfile, slotProcess, queue>>) =>
            (lock' = last'.by \/ lock = last'.by)
       /\ last'.op = "watchdog_read" =>
            /\ lock # "loop"
            /\ lock' = "watchdog"]_vars

\* the running processes launched on the ports of slot s
C32_LiveOn(s) ==
    {c \in Children : child[c].ports = slotPorts[s] /\ child[c].alive}

\* C32: a slot never has two live occupants: at most one process launched
\* on a slot's ports is running, and when an eviction, from the watchdog
\* thread or from the event loop (monitor, request handlers), launches a
\* child into a slot, every process launched there earlier has exited.
C32_OneLiveOccupant ==
    /\ [](\A s \in Slots : Cardinality(C32_LiveOn(s)) <= 1)
    /\ [][(last'.op = "evict_child" /\ last'.ret # None) =>
            /\ ~child[last'.arg].alive
            /\ child'[last'.ret].ports = child[last'.arg].ports
            /\ \A c \in Children :
                  child[c].ports = child[last'.arg].ports => ~child[c].alive
            /\ \E s \in Slots : C32_LiveOn(s)' = {last'.ret}]_vars

\* the watchdog's eviction has launched the third child of one slot, after
\* an eviction from the event loop; the two earlier ones have exited
C32_Witness ==
    /\ last.op = "evict_child" /\ last.by = "watchdog" /\ last.ret = 3
    /\ child[1].ports = child[3].ports /\ child[2].ports = child[3].ports
    /\ ~child[1].alive /\ ~child[2].alive /\ child[3].alive

\* C33: the watchdog calls registry.evict_child at most once for each exited
\* child, identified by (profile name, pid): it picks a child for eviction
\* only when the child has exited and its key is not in the set of reported
\* keys, it records the key with the pick, and the key of an exited child
\* stays recorded, so a later iteration skips that child.
C33_ReportedOnce ==
    [][/\ (wdChild' # None /\ wdChild' # wdChild) =>
            /\ last'.op = "watchdog_read" /\ last'.ret = wdChild'
            /\ ~child[wdChild'].alive
            /\ Key(wdChild') \notin notified
            /\ Key(wdChild') \in notified'
       /\ \A c \in Children :
            (Key(c) \in notified /\ ~child[c].alive) => Key(c) \in notified'
       /\ (last'.op = "evict_enter" /\ last'.by = "watchdog") =>
            last'.arg = wdChild /\ Key(wdChild) \in notified
       /\ (last'.op = "evict_child" /\ last'.by = "watchdog") =>
            /\ last'.arg = wdChild /\ Key(wdChild) \in notified
            /\ wdChild' = None]_vars

\* two exited children have been reported, each once, and the watchdog is
\* back in its loop
C33_Witness ==
    /\ Cardinality(notified) = 2
    /\ wdChild = None
    /\ last.op = "watchdog_read" /\ last.ret = None
    /\ \A k \in notified : \E c \in Children : Key(c) = k /\ ~child[c].alive

\* child c is a slot's occupant and its process has exited
C34_Exited(c) ==
    /\ c \in Children
    /\ WatchdogRunning
    /\ ~child[c].alive
    /\ \E s \in Slots : slotProcess[s] = c

\* child c holds no slot and the registry no longer has it
C34_Evicted(c) ==
    /\ c \in Children
    /\ \A s \in Slots : slotProcess[s] # c
    /\ c \notin Range(ready)
    /\ \A n \in DOMAIN children : children[n] # c

\* C34: while the watchdog is running, every slot occupant whose process
\* exits is eventually evicted: its slot comes to hold another child or
\* none, and the exited child is gone from the ready deque and from the
\* registry's children map.
C34_ExitedIsEvicted ==
    \A c \in 1..WdLaunches : C34_Exited(c) ~> C34_Evicted(c)

\* the watchdog's registry.evict_child has returned a replacement for an
\* exited child, which the registry has dropped
C34_Witness ==
    /\ last.op = "evict_child" /\ last.by = "watchdog" /\ last.ret # None
    /\ ~child[last.arg].alive
    /\ C34_Evicted(last.arg)
    /\ last.ret \in Range(slotProcess)
    /\ Key(last.arg) \in notified

\* C36: after ChildRegistry.shutdown has set the stop event, the monitor
\* task it awaits finishes and the await returns; while the event is set no
\* monitor task starts a poll round; and start_monitoring creates a task
\* only when no monitor task is running, so at most one is.
C36_MonitorStops ==
    /\ \A t \in 1..MaxTasks :
          (shpc = "awaiting" /\ monTask = t /\ stopEvent)
            ~> (shpc = "idle" /\ monTask = None /\ t \notin RunningTasks)
    /\ [][/\ last'.op = "poll_once" => (~stopEvent /\ ~stopEvent')
          /\ (stopEvent /\ stopEvent') =>
               \A t \in 1..Len(monTasks) :
                 monTasks'[t] = "poll" => monTasks[t] = "poll"
          /\ (last'.op = "start_monitoring" /\ last'.ok) =>
               /\ RunningTasks = {}
               /\ RunningTasks' = {monTask'}
               /\ ~stopEvent'
          /\ (last'.op = "start_monitoring" /\ ~last'.ok) =>
               /\ RunningTasks = {monTask}
               /\ UNCHANGED monVars]_vars
    /\ [](Cardinality(RunningTasks) <= 1)

\* shutdown has returned from awaiting the second task created, after a
\* poll round that took a name off the unhealthy set; both tasks are done
C36_Witness ==
    /\ last.op = "shutdown" /\ last.arg = 2
    /\ monTasks = <<"done", "done">>
    /\ monTask = None /\ shpc = "idle" /\ stopEvent
    /\ unhealthy # 1..NChildren

\* C40: no child process is orphaned: whenever the slot manager's lock is
\* free every running process it launched is the occupant of a slot, and
\* when main has returned, also on the startup-interrupt path with the
\* watchdog thread still running, no launched process is running.
C40_NoOrphans ==
    /\ lock = "free" =>
         \A c \in Children :
           child[c].alive => \E s \in Slots : slotProcess[s] = c
    /\ mainpc = "exited" => \A c \in Children : ~child[c].alive

====
